---- MODULE Spec2Model ----
(***************************************************************************)
(* A model of the BCBP (Bar-Coded Boarding Pass) decoder of                *)
(* tools.digikiwi.net.  The repository holds several revisions of the      *)
(* decoder; the two revisions of parseBCBP that are built on the           *)
(* SegmentExtractor are modelled here, step by step, one action per call   *)
(* of the extractor or per branch of the decoder:                          *)
(*     impl = "p0"   src/unnamed/part_000, lines 405-619                   *)
(*     impl = "ts"   src/src/lib/bcbp.ts,  lines 1527-1723                 *)
(* Strings are TLC strings (Len, \o and SubSeq work on them, 1-based).     *)
(***************************************************************************)
EXTENDS Integers, Sequences, FiniteSets, TLC

VARIABLES
    impl,                \* which revision of parseBCBP is running
    raw,                 \* SegmentExtractor.raw: the input string
    cursor,              \* SegmentExtractor.cursor
    segments,            \* SegmentExtractor.segments
    pc,                  \* position in parseBCBP
    idx,                 \* index into the field table of the current block
    result,              \* the intermediate object `result`
    leg,                 \* the object `leg` of the current loop iteration
    i,                   \* the loop variable of the leg loop
    uniqueDataParsed,    \* the flag of that name
    startOfConditional,  \* locals of the conditional block
    endOfConditional,
    endOfSectionA,
    endOfSectionB,
    bags,                \* the local array `bags`
    secSize,             \* the local `secSize` of the security block
    out,                 \* the value the call returns
    clock,               \* the year of the wall clock: new Date().getFullYear()
    dateOfIssueYear,     \* the local of that name in parseBcbp
    calls,               \* how many calls have returned before this one
    earlier,             \* what the earlier call returned
    mounted,             \* BoardingPassTool and its Scanner are mounted
    rawScan,             \* the state rawScan as of the last render
    parsedData,          \* the state parsedData: the text it was parsed from, or null
    error,               \* the state error
    queue,               \* state updates set and not yet rendered
    scannerRef,          \* scannerRef.current: an instance, or 0 for null
    instances,           \* the Html5QrcodeScanner instances created so far
    effectPending,       \* the effect of Scanner is to run (onScan changed)
    isScanning,          \* the state isScanning of Scanner
    parses,              \* the calls of parseBcbp the page has made
    parsed,              \* the prop `parsed` of BcbpViewer
    activeLegIndex,      \* its state activeLegIndex
    activeTab            \* its state activeTab

vars == <<impl, raw, cursor, segments, pc, idx, result, leg, i,
          uniqueDataParsed, startOfConditional, endOfConditional,
          endOfSectionA, endOfSectionB, bags, secSize, out,
          clock, dateOfIssueYear, calls, earlier,
          mounted, rawScan, parsedData, error, queue, scannerRef, instances,
          effectPending, isScanning, parses, parsed, activeLegIndex, activeTab>>

\* the state of the page /tools/boarding-pass and of its scanner
Page == <<mounted, rawScan, parsedData, error, queue, scannerRef, instances,
          effectPending, isScanning, parses>>

\* the prop and the state of BcbpViewer
Viewer == <<parsed, activeLegIndex, activeTab>>

\* what parseBCBP neither reads nor writes
Wall == <<clock, dateOfIssueYear, calls, earlier, Page, Viewer>>

\* null, for a state that holds a string or null
NullText == "<null>"

\* the page before it is mounted
NoPage ==
    /\ mounted = FALSE
    /\ rawScan = NullText
    /\ parsedData = NullText
    /\ error = NullText
    /\ queue = <<>>
    /\ scannerRef = 0
    /\ instances = <<>>
    /\ effectPending = FALSE
    /\ isScanning = FALSE
    /\ parses = 0

\* no viewer is rendered
NoViewer ==
    /\ parsed = [legs |-> 0, numberOfLegs |-> 0]
    /\ activeLegIndex = 0
    /\ activeTab = "parsed"

\* the components before they are mounted
Unmounted == NoPage /\ NoViewer

(***************************************************************************)
(* JavaScript values.                                                      *)
(***************************************************************************)
\* `undefined` where a string is expected: no input character is "<".
UNDEF == "<undefined>"

\* NaN, `undefined` and `null` where a number is expected: integers far
\* outside every offset, size and field value of the model.
NaN == 0 - 1000000
NoNum == NaN - 1
Null == NaN - 2

IsNaN(x) == x = NaN

\* a || b on strings: undefined and "" are falsy
OrElse(a, b) == IF a = UNDEF \/ a = "" THEN b ELSE a
Truthy(a) == a # UNDEF /\ a # ""

\* a + b, a - b, Math.min(a, b) and the comparisons, with NaN
Plus(a, b) == IF IsNaN(a) \/ IsNaN(b) THEN NaN ELSE a + b
Minus(a, b) == IF IsNaN(a) \/ IsNaN(b) THEN NaN ELSE a - b
Times(a, b) == IF IsNaN(a) \/ IsNaN(b) THEN NaN ELSE a * b
MathMin(a, b) == IF IsNaN(a) \/ IsNaN(b) THEN NaN ELSE IF a < b THEN a ELSE b
Lt(a, b) == ~IsNaN(a) /\ ~IsNaN(b) /\ a < b
Le(a, b) == ~IsNaN(a) /\ ~IsNaN(b) /\ a <= b
Gt(a, b) == ~IsNaN(a) /\ ~IsNaN(b) /\ a > b
Ge(a, b) == ~IsNaN(a) /\ ~IsNaN(b) /\ a >= b

\* String.prototype.substring(a, b) with 0-based offsets: NaN is 0, both
\* ends are clamped to [0, length], and the ends are swapped when a > b.
Clamp(x, n) == IF IsNaN(x) \/ x < 0 THEN 0 ELSE IF x > n THEN n ELSE x
substring(s, a, b) ==
    LET ca == Clamp(a, Len(s))
        cb == Clamp(b, Len(s))
        lo == IF ca < cb THEN ca ELSE cb
        hi == IF ca < cb THEN cb ELSE ca
    IN  SubSeq(s, lo + 1, hi)

CharAt(s, k) == SubSeq(s, k, k)

\* String.prototype.trim(): the only white space of the model's inputs is " "
RECURSIVE TrimLeft(_)
TrimLeft(s) ==
    IF Len(s) > 0 /\ CharAt(s, 1) = " " THEN TrimLeft(SubSeq(s, 2, Len(s))) ELSE s
RECURSIVE TrimRight(_)
TrimRight(s) ==
    IF Len(s) > 0 /\ CharAt(s, Len(s)) = " "
    THEN TrimRight(SubSeq(s, 1, Len(s) - 1)) ELSE s
trim(s) == TrimRight(TrimLeft(s))

\* a replace that removes one leading zero only: /^0/
StripOneZero(s) ==
    IF Len(s) > 0 /\ CharAt(s, 1) = "0" THEN SubSeq(s, 2, Len(s)) ELSE s

\* s.replace(/^0+/, '')
RECURSIVE StripLeadingZeros(_)
StripLeadingZeros(s) ==
    IF Len(s) > 0 /\ CharAt(s, 1) = "0"
    THEN StripLeadingZeros(SubSeq(s, 2, Len(s))) ELSE s

\* The value of a digit in a radix, or NaN when it is no digit of the radix.
Digits == "0123456789ABCDEF"
LowerDigits == "0123456789abcdef"
DigitValue(c, radix) ==
    LET hits == {k \in 1..radix : CharAt(Digits, k) = c \/ CharAt(LowerDigits, k) = c}
    IN  IF hits = {} THEN NaN ELSE (CHOOSE k \in hits : TRUE) - 1

\* The value of the longest prefix of s made of digits of the radix, given
\* the value acc of the n digits already read; NaN when there is no digit.
RECURSIVE DigitRun(_, _, _, _)
DigitRun(s, radix, acc, n) ==
    IF Len(s) = 0 \/ IsNaN(DigitValue(CharAt(s, 1), radix))
    THEN IF n = 0 THEN NaN ELSE acc
    ELSE DigitRun(SubSeq(s, 2, Len(s)), radix,
                  acc * radix + DigitValue(CharAt(s, 1), radix), n + 1)

\* parseInt(s, radix): leading white space skipped, an optional sign, a
\* "0x" prefix skipped in radix 16, then the longest run of digits.
parseInt(s, radix) ==
    LET t == TrimLeft(s)
        neg == Len(t) > 0 /\ CharAt(t, 1) = "-"
        signed == Len(t) > 0 /\ CharAt(t, 1) \in {"-", "+"}
        u == IF signed THEN SubSeq(t, 2, Len(t)) ELSE t
        hexPrefix == radix = 16 /\ Len(u) >= 2 /\ SubSeq(u, 1, 2) \in {"0x", "0X"}
        v == IF hexPrefix THEN SubSeq(u, 3, Len(u)) ELSE u
        n == DigitRun(v, radix, 0, 0)
    IN  IF IsNaN(n) THEN NaN ELSE IF neg THEN 0 - n ELSE n

hexToNumber(hex) ==
    LET val == parseInt(hex, 16) IN IF IsNaN(val) THEN 0 ELSE val

\* parseInt(s) without a radix: radix 16 after a "0x" prefix, else 10
parseIntAuto(s) ==
    LET t == TrimLeft(s)
        u == IF Len(t) > 0 /\ CharAt(t, 1) \in {"-", "+"} THEN SubSeq(t, 2, Len(t)) ELSE t
    IN  IF Len(u) >= 2 /\ SubSeq(u, 1, 2) \in {"0x", "0X"}
        THEN parseInt(s, 16) ELSE parseInt(s, 10)

\* a || b on numbers: 0 and NaN are falsy
NumOrElse(a, b) == IF a = 0 \/ IsNaN(a) \/ a = NoNum THEN b ELSE a

(***************************************************************************)
(* The field tables: the constant L and the order of the read calls.       *)
(***************************************************************************)
Field(name, len, label) == [name |-> name, len |-> len, label |-> label]

\* the ten mandatory reads of one leg
LegMandatory == <<
    Field("pnrCode", 7, "PNR Code"),
    Field("departureAirport", 3, "Departure Airport"),
    Field("arrivalAirport", 3, "Arrival Airport"),
    Field("operatingCarrier", 3, "Operating Carrier"),
    Field("flightNumber", 5, "Flight Number"),
    Field("dateOfFlight", 3, "Date of Flight"),
    Field("compartment", 1, "Compartment Code"),
    Field("seatNumber", 4, "Seat Number"),
    Field("sequenceNumber", 5, "Sequence Number"),
    Field("passengerStatus", 1, "Passenger Status") >>

\* the six fixed reads of Section A (unique data)
SectionAFields == <<
    Field("passengerDescription", 1, "Passenger Description"),
    Field("checkInSource", 1, "Check-in Source"),
    Field("boardingPassIssuanceSource", 1, "Issuance Source"),
    Field("issuanceDate", 4, "Date of Issue"),
    Field("documentType", 1, "Document Type"),
    Field("issuer", 3, "Issuer Designator") >>

\* the ten fixed reads of Section B (leg specific data)
SectionBFields == <<
    Field("airlineNumericCode", 3, "Airline Numeric Code"),
    Field("serialNumber", 10, "Document Serial Num"),
    Field("selecteeIndicator", 1, "Selectee Indicator"),
    Field("internationalDocVerification", 1, "Intl Doc Verification"),
    Field("marketingCarrier", 3, "Marketing Carrier"),
    Field("frequentFlyerAirline", 3, "Frequent Flyer Airline"),
    Field("frequentFlyerNumber", 16, "Frequent Flyer Number"),
    Field("idIndicator", 1, "ID Adherence"),
    Field("freeBaggageAllowance", 3, "Free Baggage Allowance"),
    Field("fastTrack", 1, "Fast Track") >>

\* The baggage tag reads.  part_000 reads two tags of L.BAGGAGE_TAG_NUMBER
\* characters, each only while the cursor is inside Section A.  bcbp.ts
\* reads three tags unguarded, the second and third with the lengths
\* L.FIRST_BAGGAGE_TAG_NUMBER and L.SECOND_BAGGAGE_TAG_NUMBER, which L does
\* not define: Math.min(undefined, n) is NaN.
BaggageReads(im) ==
    IF im = "p0"
    THEN << [len |-> 13, label |-> "Baggage Tag 1", guarded |-> TRUE],
            [len |-> 13, label |-> "Baggage Tag 2", guarded |-> TRUE] >>
    ELSE << [len |-> 13, label |-> "Baggage Tag 1", guarded |-> FALSE],
            [len |-> NaN, label |-> "Baggage Tag 2", guarded |-> FALSE],
            [len |-> NaN, label |-> "Baggage Tag 3", guarded |-> FALSE] >>

LegFieldNames ==
    {LegMandatory[k].name : k \in 1..Len(LegMandatory)}
        \cup {SectionBFields[k].name : k \in 1..Len(SectionBFields)}

\* const leg: any = {}
EmptyLeg == [f \in LegFieldNames |-> UNDEF]

\* const result = { legs: [] }
EmptyResult ==
    [formatCode |-> UNDEF, numberOfLegs |-> NoNum, passengerName |-> UNDEF,
     electronicTicket |-> UNDEF, legs |-> <<>>, version |-> NoNum,
     passengerDescription |-> UNDEF, checkInSource |-> UNDEF,
     boardingPassIssuanceSource |-> UNDEF, issuanceDate |-> UNDEF,
     documentType |-> UNDEF, issuer |-> UNDEF, baggageTags |-> <<>>,
     hasBaggageTags |-> FALSE, securityData |-> UNDEF]

(***************************************************************************)
(* SegmentExtractor.                                                       *)
(***************************************************************************)
Segment(label, value, rawValue, start, end, section) ==
    [label |-> label, value |-> value, raw |-> rawValue,
     start |-> start, end |-> end, section |-> section]

\* a read that records an empty segment when nothing is left
readEmpty(length, label, section) ==
    LET actualLength == MathMin(length, Minus(Len(raw), cursor))
        start == cursor
        end == IF Le(actualLength, 0) THEN start ELSE Plus(start, actualLength)
        rawValue == substring(raw, start, end)
    IN  [ret |-> rawValue,
         cursor |-> end,
         segments |-> Append(segments,
             Segment(label, trim(rawValue), rawValue, start, end, section))]

\* SegmentExtractor.read: the value returned and the extractor afterwards
read(length, label, section) ==
    LET actualLength == MathMin(length, Minus(Len(raw), cursor))
    IN  IF Ge(cursor, Len(raw)) \/ Le(actualLength, 0)
        THEN [ret |-> UNDEF, cursor |-> cursor, segments |-> segments]
        ELSE LET start == cursor
                 end == Plus(start, actualLength)
                 rawValue == substring(raw, start, end)
             IN  [ret |-> rawValue,
                  cursor |-> Plus(cursor, actualLength),
                  segments |-> Append(segments,
                      Segment(label, trim(rawValue), rawValue, start, end, section))]

\* a peek that looks at the character after the next one
peekAhead(length) == substring(raw, Plus(cursor, 1), Plus(cursor, length + 1))

\* SegmentExtractor.peek
peek(length) == substring(raw, cursor, Plus(cursor, length))

\* SegmentExtractor.current
current == cursor

\* the read is applied to the extractor
Extract(r) == cursor' = r.cursor /\ segments' = r.segments

(***************************************************************************)
(* The value parseBCBP returns.                                            *)
(***************************************************************************)
NotReturned ==
    [returned |-> FALSE, success |-> FALSE, error |-> UNDEF,
     hasData |-> FALSE, data |-> <<>>, hasSegments |-> FALSE, segments |-> <<>>]

\* a failure that hands back what was decoded so far
FailureWithData(msg) ==
    [returned |-> TRUE, success |-> FALSE, error |-> msg,
     hasData |-> TRUE, data |-> <<>>, hasSegments |-> TRUE, segments |-> <<>>]

Failure(msg) ==
    [returned |-> TRUE, success |-> FALSE, error |-> msg,
     hasData |-> FALSE, data |-> <<>>, hasSegments |-> FALSE, segments |-> <<>>]

Success(data, segs) ==
    [returned |-> TRUE, success |-> TRUE, error |-> UNDEF,
     hasData |-> TRUE, data |-> data, hasSegments |-> TRUE, segments |-> segs]

\* the minimum input length: `raw.length < 30` in part_000 ("Relaxed min
\* length"), `raw.length < 60` in bcbp.ts
MinLength(im) == IF im = "p0" THEN 30 ELSE 60

(***************************************************************************)
(* parseBCBP, one action per step.                                         *)
(***************************************************************************)
Locals == <<startOfConditional, endOfConditional, endOfSectionA, endOfSectionB,
           bags, secSize>>

\* if (!raw || raw.length < MIN) return { success: false, error: 'Input too short' }
Start ==
    /\ pc = "start"
    /\ IF raw = "" \/ Len(raw) < MinLength(impl)
       THEN pc' = "done" /\ out' = Failure("Input too short")
       ELSE pc' = "formatCode" /\ out' = out
    /\ UNCHANGED <<Wall, impl, raw, cursor, segments, idx, result, leg, i,
                   uniqueDataParsed, Locals>>

\* result.formatCode = extractor.read(...) || "M"; bcbp.ts returns a failure
\* when it is not 'M', part_000 goes on
ReadFormatCode ==
    /\ pc = "formatCode"
    /\ LET r == read(1, "Format Code", "header")
           formatCode == OrElse(r.ret, "M")
       IN  /\ Extract(r)
           /\ result' = [result EXCEPT !.formatCode = formatCode]
           /\ IF impl = "ts" /\ formatCode # "M"
              THEN pc' = "done" /\ out' = Failure("Invalid Format Code")
              ELSE pc' = "numberOfLegs" /\ out' = out
    /\ UNCHANGED <<Wall, impl, raw, idx, leg, i, uniqueDataParsed, Locals>>

\* result.numberOfLegs = parseInt(numLegsStr || "1"); part_000 adds
\* if (isNaN(result.numberOfLegs)) result.numberOfLegs = 1
ReadNumberOfLegs ==
    /\ pc = "numberOfLegs"
    /\ LET r == read(1, "Number of Legs", "header")
           n == parseIntAuto(OrElse(r.ret, "1"))
       IN  /\ Extract(r)
           /\ result' = [result EXCEPT
                  !.numberOfLegs = IF impl = "p0" /\ IsNaN(n) THEN 1 ELSE n]
    /\ pc' = "passengerName"
    /\ UNCHANGED <<Wall, impl, raw, idx, leg, i, uniqueDataParsed, Locals, out>>

ReadPassengerName ==
    /\ pc = "passengerName"
    /\ LET r == read(20, "Passenger Name", "header")
       IN  Extract(r) /\ result' = [result EXCEPT !.passengerName = r.ret]
    /\ pc' = "electronicTicket"
    /\ UNCHANGED <<Wall, impl, raw, idx, leg, i, uniqueDataParsed, Locals, out>>

\* the last header read, then `let uniqueDataParsed = false` and `let i = 0`
ReadElectronicTicket ==
    /\ pc = "electronicTicket"
    /\ LET r == read(1, "E-Ticket Indicator", "header")
       IN  Extract(r) /\ result' = [result EXCEPT !.electronicTicket = r.ret]
    /\ pc' = "legLoop"
    /\ i' = 0
    /\ uniqueDataParsed' = FALSE
    /\ UNCHANGED <<Wall, impl, raw, idx, leg, Locals, out>>

\* the bound of the leg loop: `result.numberOfLegs || 1` in part_000,
\* `result.numberOfLegs` in bcbp.ts
LoopBound(im, numberOfLegs) ==
    IF im = "p0" THEN NumOrElse(numberOfLegs, 1) ELSE numberOfLegs

\* for (...; i < bound; ...) { const leg = {}; ...
LegLoop ==
    /\ pc = "legLoop"
    /\ IF Lt(i, LoopBound(impl, result.numberOfLegs))
       THEN pc' = "legMandatory" /\ idx' = 1 /\ leg' = EmptyLeg
       ELSE pc' = "security" /\ idx' = idx /\ leg' = leg
    /\ UNCHANGED <<Wall, impl, raw, cursor, segments, result, i, uniqueDataParsed,
                   Locals, out>>

\* leg.<field> = extractor.read(L.<FIELD>, <label>, "leg_mandatory")
ReadLegMandatory ==
    /\ pc = "legMandatory"
    /\ LET f == LegMandatory[idx]
           r == read(f.len, f.label, "leg_mandatory")
       IN  Extract(r) /\ leg' = [leg EXCEPT ![f.name] = r.ret]
    /\ IF idx < Len(LegMandatory)
       THEN pc' = pc /\ idx' = idx + 1
       ELSE pc' = "conditionalSize" /\ idx' = idx
    /\ UNCHANGED <<Wall, impl, raw, result, i, uniqueDataParsed, Locals, out>>

\* const conditionalSize = conditionalSizeHex ? hexToNumber(conditionalSizeHex) : 0;
\* if (conditionalSize > 0) { startOfConditional = ...; endOfConditional = ... }
ReadConditionalSize ==
    /\ pc = "conditionalSize"
    /\ LET r == read(2, "Conditional Data Size", "leg_mandatory")
           conditionalSize == IF Truthy(r.ret) THEN hexToNumber(r.ret) ELSE 0
       IN  /\ Extract(r)
           /\ IF Gt(conditionalSize, 0)
              THEN /\ startOfConditional' = r.cursor
                   /\ endOfConditional' = Plus(r.cursor, conditionalSize)
                   /\ pc' = "sectionA"
              ELSE /\ UNCHANGED <<startOfConditional, endOfConditional>>
                   /\ pc' = "pushLeg"
    /\ UNCHANGED <<Wall, impl, raw, idx, result, leg, i, uniqueDataParsed,
                   endOfSectionA, endOfSectionB, bags, secSize, out>>

\* the test of the unique section without the flag: if (nextChar === '>')
PeekSectionAEveryLeg ==
    /\ pc = "sectionA"
    /\ pc' = IF peek(1) = ">" THEN "versionIndicator" ELSE "sectionB"
    /\ UNCHANGED <<Wall, impl, raw, cursor, segments, idx, result, leg, i,
                   uniqueDataParsed, Locals, out>>

\* const nextChar = extractor.peek(1); if (!uniqueDataParsed && nextChar === '>')
PeekSectionA ==
    /\ pc = "sectionA"
    /\ pc' = IF ~uniqueDataParsed /\ peek(1) = ">" THEN "versionIndicator" ELSE "sectionB"
    /\ UNCHANGED <<Wall, impl, raw, cursor, segments, idx, result, leg, i,
                   uniqueDataParsed, Locals, out>>

ReadVersionIndicator ==
    /\ pc = "versionIndicator"
    /\ Extract(read(1, "Version Indicator", "conditional_unique"))
    /\ pc' = "versionNumber"
    /\ UNCHANGED <<Wall, impl, raw, idx, result, leg, i, uniqueDataParsed, Locals, out>>

\* result.version = verStr ? parseInt(verStr) : undefined
ReadVersionNumber ==
    /\ pc = "versionNumber"
    /\ LET r == read(1, "Version Number", "conditional_unique")
       IN  /\ Extract(r)
           /\ result' = [result EXCEPT
                  !.version = IF Truthy(r.ret) THEN parseIntAuto(r.ret) ELSE NoNum]
    /\ pc' = "sectionASize"
    /\ UNCHANGED <<Wall, impl, raw, idx, leg, i, uniqueDataParsed, Locals, out>>

\* const sectionASize = ...; if (sectionASize > 0) { endOfSectionA = ... }
\* else the block ends with uniqueDataParsed = true
ReadSectionASize ==
    /\ pc = "sectionASize"
    /\ LET r == read(2, "Unique Data Size", "conditional_unique")
           sectionASize == IF Truthy(r.ret) THEN hexToNumber(r.ret) ELSE 0
       IN  /\ Extract(r)
           /\ IF Gt(sectionASize, 0)
              THEN /\ endOfSectionA' = Plus(r.cursor, sectionASize)
                   /\ pc' = "uniqueFields" /\ idx' = 1
                   /\ uniqueDataParsed' = uniqueDataParsed
              ELSE /\ endOfSectionA' = endOfSectionA
                   /\ pc' = "sectionB" /\ idx' = idx
                   /\ uniqueDataParsed' = TRUE
    /\ UNCHANGED <<Wall, impl, raw, result, leg, i, startOfConditional,
                   endOfConditional, endOfSectionB, bags, secSize, out>>

\* result.<field> = extractor.read(...); bcbp.ts keeps the date of issue in
\* a local it never uses.  After the last one: const bags = []
ReadUniqueField ==
    /\ pc = "uniqueFields"
    /\ LET f == SectionAFields[idx]
           r == read(f.len, f.label, "conditional_unique")
       IN  /\ Extract(r)
           /\ result' = IF impl = "ts" /\ f.name = "issuanceDate"
                        THEN result
                        ELSE [result EXCEPT ![f.name] = r.ret]
    /\ IF idx < Len(SectionAFields)
       THEN pc' = pc /\ idx' = idx + 1 /\ bags' = bags
       ELSE pc' = "baggageTag" /\ idx' = 1 /\ bags' = <<>>
    /\ UNCHANGED <<Wall, impl, raw, leg, i, uniqueDataParsed, startOfConditional,
                   endOfConditional, endOfSectionA, endOfSectionB, secSize, out>>

\* const bagN = extractor.read(...); if (bagN) bags.push(bagN); after the
\* last one: if (bags.length > 0) result.baggageTags = bags
ReadBaggageTag ==
    /\ pc = "baggageTag"
    /\ LET b == BaggageReads(impl)[idx]
           skip == b.guarded /\ ~Lt(current, endOfSectionA)
           r == IF skip
                THEN [ret |-> UNDEF, cursor |-> cursor, segments |-> segments]
                ELSE read(b.len, b.label, "conditional_unique")
           pushed == IF Truthy(r.ret) THEN Append(bags, r.ret) ELSE bags
       IN  /\ Extract(r)
           /\ bags' = pushed
           /\ IF idx < Len(BaggageReads(impl))
              THEN pc' = pc /\ idx' = idx + 1 /\ result' = result
              ELSE /\ pc' = "reservedA" /\ idx' = idx
                   /\ result' = IF Len(pushed) > 0
                                THEN [result EXCEPT !.baggageTags = pushed,
                                                    !.hasBaggageTags = TRUE]
                                ELSE result
    /\ UNCHANGED <<Wall, impl, raw, leg, i, uniqueDataParsed, startOfConditional,
                   endOfConditional, endOfSectionA, endOfSectionB, secSize, out>>

\* const remainingA = endOfSectionA - extractor.current();
\* if (remainingA > 0) extractor.read(remainingA, ...); uniqueDataParsed = true
ReadReservedA ==
    /\ pc = "reservedA"
    /\ LET remainingA == Minus(endOfSectionA, current)
       IN  IF Gt(remainingA, 0)
           THEN Extract(read(remainingA, "Reserved (Section A)", "conditional_unique"))
           ELSE UNCHANGED <<cursor, segments>>
    /\ uniqueDataParsed' = TRUE
    /\ pc' = "sectionB"
    /\ UNCHANGED <<Wall, impl, raw, idx, result, leg, i, Locals, out>>

\* if (extractor.current() < endOfConditional) { const sectionBSize = ...;
\*   if (sectionBSize > 0) { endOfSectionB = ... } }
ReadSectionBSize ==
    /\ pc = "sectionB"
    /\ IF Lt(current, endOfConditional)
       THEN LET r == read(2, "Leg Data Size", "conditional_leg")
                sectionBSize == IF Truthy(r.ret) THEN hexToNumber(r.ret) ELSE 0
            IN  /\ Extract(r)
                /\ IF Gt(sectionBSize, 0)
                   THEN /\ endOfSectionB' = Plus(r.cursor, sectionBSize)
                        /\ pc' = "legFields" /\ idx' = 1
                   ELSE /\ endOfSectionB' = endOfSectionB
                        /\ pc' = "reservedCond" /\ idx' = idx
       ELSE /\ pc' = "reservedCond"
            /\ UNCHANGED <<cursor, segments, endOfSectionB, idx>>
    /\ UNCHANGED <<Wall, impl, raw, result, leg, i, uniqueDataParsed,
                   startOfConditional, endOfConditional, endOfSectionA, bags,
                   secSize, out>>

\* leg.<field> = extractor.read(...); the last one is
\* const ft = extractor.read(L.FAST_TRACK, ...); if (ft) leg.fastTrack = (ft === 'Y')
ReadLegConditional ==
    /\ pc = "legFields"
    /\ LET f == SectionBFields[idx]
           r == read(f.len, f.label, "conditional_leg")
           v == IF f.name # "fastTrack" THEN r.ret
                ELSE IF ~Truthy(r.ret) THEN UNDEF
                ELSE IF r.ret = "Y" THEN "true" ELSE "false"
       IN  Extract(r) /\ leg' = [leg EXCEPT ![f.name] = v]
    /\ IF idx < Len(SectionBFields)
       THEN pc' = pc /\ idx' = idx + 1
       ELSE pc' = "reservedB" /\ idx' = idx
    /\ UNCHANGED <<Wall, impl, raw, result, i, uniqueDataParsed, Locals, out>>

\* const remainingB = endOfSectionB - extractor.current();
\* if (remainingB > 0) extractor.read(remainingB, "Reserved (Section B)", sB)
ReadReservedB ==
    /\ pc = "reservedB"
    /\ LET remainingB == Minus(endOfSectionB, current)
       IN  IF Gt(remainingB, 0)
           THEN Extract(read(remainingB, "Reserved (Section B)", "conditional_leg"))
           ELSE UNCHANGED <<cursor, segments>>
    /\ pc' = "reservedCond"
    /\ UNCHANGED <<Wall, impl, raw, idx, result, leg, i, uniqueDataParsed, Locals, out>>

\* const remainingCond = endOfConditional - extractor.current();
\* if (remainingCond > 0) extractor.read(remainingCond, "Airline Use / Reserved", ...)
ReadReservedConditional ==
    /\ pc = "reservedCond"
    /\ LET remainingCond == Minus(endOfConditional, current)
       IN  IF Gt(remainingCond, 0)
           THEN Extract(read(remainingCond, "Airline Use / Reserved", "conditional_leg"))
           ELSE UNCHANGED <<cursor, segments>>
    /\ pc' = "pushLeg"
    /\ UNCHANGED <<Wall, impl, raw, idx, result, leg, i, uniqueDataParsed, Locals, out>>

\* result.legs.push(leg); i++
PushLeg ==
    /\ pc = "pushLeg"
    /\ result' = [result EXCEPT !.legs = Append(@, leg)]
    /\ i' = i + 1
    /\ pc' = "legLoop"
    /\ UNCHANGED <<Wall, impl, raw, cursor, segments, idx, leg, uniqueDataParsed,
                   Locals, out>>

\* const secInd = extractor.peek(1); if (secInd === '^')
PeekSecurity ==
    /\ pc = "security"
    /\ pc' = IF peek(1) = "^" THEN "securityIndicator" ELSE "final"
    /\ UNCHANGED <<Wall, impl, raw, cursor, segments, idx, result, leg, i,
                   uniqueDataParsed, Locals, out>>

ReadSecurityIndicator ==
    /\ pc = "securityIndicator"
    /\ Extract(read(1, "Security Indicator", "security"))
    /\ pc' = "securityType"
    /\ UNCHANGED <<Wall, impl, raw, idx, result, leg, i, uniqueDataParsed, Locals, out>>

ReadSecurityType ==
    /\ pc = "securityType"
    /\ Extract(read(1, "Security Type", "security"))
    /\ pc' = "securitySize"
    /\ UNCHANGED <<Wall, impl, raw, idx, result, leg, i, uniqueDataParsed, Locals, out>>

\* const secSize = secSizeHex ? hexToNumber(secSizeHex) : 0; if (secSize > 0) ...
ReadSecuritySize ==
    /\ pc = "securitySize"
    /\ LET r == read(2, "Security Data Size", "security")
       IN  /\ Extract(r)
           /\ secSize' = IF Truthy(r.ret) THEN hexToNumber(r.ret) ELSE 0
    /\ pc' = IF Gt(secSize', 0) THEN "securityData" ELSE "final"
    /\ UNCHANGED <<Wall, impl, raw, idx, result, leg, i, uniqueDataParsed,
                   startOfConditional, endOfConditional, endOfSectionA,
                   endOfSectionB, bags, out>>

\* a read of the security data that takes all that is left of the input
ReadSecurityRest ==
    /\ pc = "securityData"
    /\ LET r == read(Len(raw), "Security Data", "security")
       IN  Extract(r) /\ result' = [result EXCEPT !.securityData = r.ret]
    /\ pc' = "final"
    /\ UNCHANGED <<Wall, impl, raw, idx, leg, i, uniqueDataParsed, Locals, out>>

\* result.securityData = extractor.read(secSize, "Security Data", sSec)
ReadSecurityData ==
    /\ pc = "securityData"
    /\ LET r == read(secSize, "Security Data", "security")
       IN  Extract(r) /\ result' = [result EXCEPT !.securityData = r.ret]
    /\ pc' = "final"
    /\ UNCHANGED <<Wall, impl, raw, idx, leg, i, uniqueDataParsed, Locals, out>>

(***************************************************************************)
(* Final transformation and validation.                                    *)
(***************************************************************************)
\* BCBP_REFERENCE.compartment
CompartmentTable ==
    ("F" :> "First Class") @@ ("A" :> "First Class Discounted")
    @@ ("P" :> "First Class Premium") @@ ("J" :> "Business Class")
    @@ ("C" :> "Business Class") @@ ("D" :> "Business Class Discounted")
    @@ ("I" :> "Business Class Discounted") @@ ("Z" :> "Business Class Discounted")
    @@ ("W" :> "Premium Economy") @@ ("S" :> "Economy Class")
    @@ ("Y" :> "Economy Class") @@ ("B" :> "Economy Class")
    @@ ("H" :> "Economy Class") @@ ("K" :> "Economy Class")
    @@ ("L" :> "Economy Class") @@ ("M" :> "Economy Class")
    @@ ("N" :> "Economy Class") @@ ("Q" :> "Economy Class")
    @@ ("T" :> "Economy Class") @@ ("V" :> "Economy Class")
    @@ ("X" :> "Economy Class") @@ ("E" :> "Shuttle Service")
    @@ ("U" :> "Shuttle Service") @@ ("G" :> "Shuttle Service")
    @@ ("O" :> "Shuttle Service")

\* BCBP_REFERENCE.passengerStatus
PassengerStatusTable ==
    ("0" :> "Ticketed and confirmed") @@ ("1" :> "Ticketed and not confirmed")
    @@ ("2" :> "Waitlisted") @@ ("3" :> "Standby")
    @@ ("4" :> "Boarding Pass issued") @@ ("5" :> "Boarding Pass re-issued")
    @@ ("6" :> "Original Boarding Pass")
    @@ ("7" :> "Ticketed, confirmed, checked-in")
    @@ ("8" :> "Ticketed, confirmed, checked-in (re-issued)")

Coded(code, description) == [code |-> code, description |-> description]

\* a compartment or passenger status the leg does not carry (undefined)
NoCode == Coded(UNDEF, UNDEF)

\* the transform of CompartmentCode: table[c] || 'Unknown Class'
CompartmentCode(c) ==
    Coded(c, IF c \in DOMAIN CompartmentTable THEN CompartmentTable[c]
             ELSE "Unknown Class")

\* the transform of PassengerStatus: table[s] || 'Unknown Status'
PassengerStatus(c) ==
    Coded(c, IF c \in DOMAIN PassengerStatusTable THEN PassengerStatusTable[c]
             ELSE "Unknown Status")

\* A date field of a leg is a number, null, or (in the fall-back of
\* bcbp.ts) the raw string or undefined.
DateNumber(n) == [kind |-> "number", num |-> n, str |-> UNDEF]
DateNull == [kind |-> "null", num |-> Null, str |-> UNDEF]
DateRaw(s) ==
    [kind |-> IF s = UNDEF THEN "undefined" ELSE "string", num |-> NoNum, str |-> s]

\* FlexibleDate (part_000): trimmed, null when empty or not a number
FlexibleDate(s) ==
    LET trimmed == trim(s)
        num == parseInt(trimmed, 10)
    IN  IF trimmed = "" \/ IsNaN(num) THEN DateNull ELSE DateNumber(num)

\* JulianDate (bcbp.ts), after its z.string().length(3) check
JulianDate(s) ==
    LET day == parseInt(s, 10) IN IF IsNaN(day) THEN DateNull ELSE DateNumber(day)

\* The date schema of the revision.
DateSchema(im, s) == IF im = "p0" THEN FlexibleDate(s) ELSE JulianDate(s)

\* The mandatory string fields that part_000 defaults to "" before
\* LegSchema.safeParse; bcbp.ts passes the leg as it was read.
Defaulted ==
    {"pnrCode", "departureAirport", "arrivalAirport", "operatingCarrier",
     "flightNumber", "dateOfFlight", "seatNumber", "sequenceNumber"}

\* a leg handed to LegSchema.safeParse without the defaults
NoDefaults(im, legRaw) == legRaw

prepped(im, legRaw) ==
    IF im = "p0"
    THEN [f \in LegFieldNames |->
             IF f \in Defaulted THEN OrElse(legRaw[f], "") ELSE legRaw[f]]
    ELSE legRaw

\* LegSchema.safeParse(...).success: the z.string() fields are strings, the
\* date has three characters (JulianDate only), the optional codes are
\* absent or one character long.
LegSchemaAccepts(im, p) ==
    /\ \A f \in Defaulted : p[f] # UNDEF
    /\ im = "ts" => Len(p.dateOfFlight) = 3
    /\ p.compartment = UNDEF \/ Len(p.compartment) = 1
    /\ p.passengerStatus = UNDEF \/ Len(p.passengerStatus) = 1

\* the optional fields of a leg, which every branch copies unchanged
Optional(p) ==
    [airlineNumericCode |-> p.airlineNumericCode, serialNumber |-> p.serialNumber,
     selecteeIndicator |-> p.selecteeIndicator,
     internationalDocVerification |-> p.internationalDocVerification,
     marketingCarrier |-> p.marketingCarrier,
     frequentFlyerAirline |-> p.frequentFlyerAirline,
     frequentFlyerNumber |-> p.frequentFlyerNumber, idIndicator |-> p.idIndicator,
     freeBaggageAllowance |-> p.freeBaggageAllowance, fastTrack |-> p.fastTrack]

\* TrimmedString.transform(s => s.replace(/^0+/, ''))
Normalized(s) == StripLeadingZeros(trim(s))

\* a name that keeps the padding of its field
KeepSpaces(s) == s

\* x?.trim()
TrimIfDefined(s) == IF s = UNDEF THEN UNDEF ELSE trim(s)

\* parsed.data of LegSchema.safeParse
LegSchemaData(im, p) ==
    [pnrCode |-> trim(p.pnrCode),
     departureAirport |-> trim(p.departureAirport),
     arrivalAirport |-> trim(p.arrivalAirport),
     operatingCarrier |-> trim(p.operatingCarrier),
     flightNumber |-> Normalized(p.flightNumber),
     dateOfFlight |-> DateSchema(im, p.dateOfFlight),
     compartment |-> IF p.compartment = UNDEF THEN NoCode
                     ELSE CompartmentCode(p.compartment),
     seatNumber |-> Normalized(p.seatNumber),
     sequenceNumber |-> Normalized(p.sequenceNumber),
     passengerStatus |-> IF p.passengerStatus = UNDEF THEN NoCode
                         ELSE PassengerStatus(p.passengerStatus)]
    @@ Optional(p)

\* the "fail soft" leg built when safeParse fails
LegFallback(im, legRaw, p) ==
    IF im = "p0"
    THEN [pnrCode |-> p.pnrCode,
          departureAirport |-> p.departureAirport,
          arrivalAirport |-> p.arrivalAirport,
          operatingCarrier |-> p.operatingCarrier,
          flightNumber |-> Normalized(p.flightNumber),
          dateOfFlight |-> DateNull,
          compartment |-> Coded(OrElse(legRaw.compartment, "?"), "Invalid"),
          seatNumber |-> Normalized(p.seatNumber),
          sequenceNumber |-> Normalized(p.sequenceNumber),
          passengerStatus |-> Coded(OrElse(legRaw.passengerStatus, "?"), "Invalid")]
         @@ Optional(p)
    ELSE [pnrCode |-> TrimIfDefined(legRaw.pnrCode),
          departureAirport |-> legRaw.departureAirport,
          arrivalAirport |-> legRaw.arrivalAirport,
          operatingCarrier |-> legRaw.operatingCarrier,
          flightNumber |-> IF legRaw.flightNumber = UNDEF THEN UNDEF
                           ELSE Normalized(legRaw.flightNumber),
          dateOfFlight |-> DateRaw(legRaw.dateOfFlight),
          compartment |-> Coded(legRaw.compartment, "Invalid"),
          seatNumber |-> IF legRaw.seatNumber = UNDEF THEN UNDEF
                         ELSE Normalized(legRaw.seatNumber),
          sequenceNumber |-> IF legRaw.sequenceNumber = UNDEF THEN UNDEF
                             ELSE Normalized(legRaw.sequenceNumber),
          passengerStatus |-> Coded(legRaw.passengerStatus, "Invalid")]
         @@ Optional(legRaw)

\* one element of finalLegs
FinalLeg(im, legRaw) ==
    LET p == prepped(im, legRaw)
    IN  IF LegSchemaAccepts(im, p) THEN LegSchemaData(im, p)
        ELSE LegFallback(im, legRaw, p)

\* a parseBaggageTag whose version test is `version > 7`
BaggageTagAfterV7(tag, version) ==
    LET v == IF version = NoNum THEN 6 ELSE version
        clean == trim(tag)
        countVal == parseInt(substring(clean, 10, 13), 10)
    IN  IF Len(clean) # 13
        THEN [raw |-> clean, airlineCode |-> UNDEF, serialNumber |-> UNDEF,
              consecutiveNumber |-> NoNum, bagCount |-> NoNum]
        ELSE [raw |-> clean,
              airlineCode |-> substring(clean, 1, 4),
              serialNumber |-> substring(clean, 4, 10),
              consecutiveNumber |-> countVal,
              bagCount |-> IF IsNaN(countVal) THEN 1
                           ELSE IF Gt(v, 7) THEN countVal ELSE countVal + 1]

\* parseBaggageTag(raw, version = 6)
parseBaggageTag(tag, version) ==
    LET v == IF version = NoNum THEN 6 ELSE version
        clean == trim(tag)
        countVal == parseInt(substring(clean, 10, 13), 10)
    IN  IF Len(clean) # 13
        THEN [raw |-> clean, airlineCode |-> UNDEF, serialNumber |-> UNDEF,
              consecutiveNumber |-> NoNum, bagCount |-> NoNum]
        ELSE [raw |-> clean,
              airlineCode |-> substring(clean, 1, 4),
              serialNumber |-> substring(clean, 4, 10),
              consecutiveNumber |-> countVal,
              bagCount |-> IF IsNaN(countVal) THEN 1
                           ELSE IF Ge(v, 7) THEN countVal ELSE countVal + 1]

\* finalData.issuanceDate: part_000 parses the string with FlexibleDate when
\* it is truthy, else null; bcbp.ts has `issuanceDate: null, // TODO`
IssuanceDate(im, s) ==
    IF im = "p0" /\ Truthy(s) THEN FlexibleDate(s) ELSE DateNull

\* finalData
FinalData(im, res) ==
    [formatCode |-> IF im = "p0" THEN OrElse(res.formatCode, "?") ELSE res.formatCode,
     numberOfLegs |-> IF im = "p0" THEN NumOrElse(res.numberOfLegs, 1)
                      ELSE res.numberOfLegs,
     passengerName |-> IF im = "p0" THEN OrElse(TrimIfDefined(res.passengerName), "")
                       ELSE TrimIfDefined(res.passengerName),
     electronicTicket |-> res.electronicTicket,
     legs |-> [k \in 1..Len(res.legs) |-> FinalLeg(im, res.legs[k])],
     securityData |-> res.securityData,
     version |-> res.version,
     passengerDescription |-> res.passengerDescription,
     checkInSource |-> res.checkInSource,
     issuanceDate |-> IssuanceDate(im, res.issuanceDate),
     documentType |-> res.documentType,
     issuer |-> res.issuer,
     hasBaggageTags |-> res.hasBaggageTags,
     baggageTags |-> IF im = "p0"
                     THEN [k \in 1..Len(res.baggageTags) |->
                              parseBaggageTag(res.baggageTags[k], res.version)]
                     ELSE res.baggageTags]

\* return { success: true, data: finalData, segments: extractor.segments }
Finalize ==
    /\ pc = "final"
    /\ out' = Success(FinalData(impl, result), segments)
    /\ pc' = "done"
    /\ UNCHANGED <<Wall, impl, raw, cursor, segments, idx, result, leg, i,
                   uniqueDataParsed, Locals>>

(***************************************************************************)
(* The inputs of the model.                                                *)
(***************************************************************************)
\* the largest conditional block size declared besides the exact ones
MaxCondSize == 3
\* the largest Section A / Section B size declared besides the exact ones
MaxSectionSize == 3
\* the largest number of characters cut from the end of an input
MaxCut == 60

\* a size field: two upper case hexadecimal digits
Hex(n) == CharAt(Digits, (n \div 16) + 1) \o CharAt(Digits, (n % 16) + 1)

\* the mandatory header (23 characters)
Header(formatCode, numberOfLegs) ==
    formatCode \o numberOfLegs \o "DOE/JOHN            " \o "E"

\* mandatory leg blocks without their size field (35 characters each):
\* PNR 7, from 3, to 3, carrier 3, flight 5, date 3, class 1, seat 4,
\* sequence 5, status 1
LegLHR == "1234567LHRJFKBA 00123107Y012A000011"
LegDXB == "IJKLMNODXBSINSQ 00012108J001A000021"
\* a leg with an airport code that is no airport code, an all-zero flight
\* and seat, a blank date and codes that are in no table
LegOdd == "ABC    L1RJFKBA 00000   90000 0070Z"
\* the leg of LegLHR on another date of flight
LegOn(julian) == "1234567LHRJFKBA 00123" \o julian \o "Y012A000011"

\* the fixed fields of Section A (11 characters) and one baggage tag
UniqueBody == "PAW1005BBA "
Tag(counter) == "0125123456" \o counter
\* the fixed fields of Section B (42 characters)
LegBody == "125012345678901BA BA 123456789012345602PCY"

Single == Header("M", "1") \o LegLHR \o "00"
Multi == Header("M", "2") \o LegLHR \o "00" \o LegDXB \o "00"
\* a unique section whose sizes fit its content, then a security section
Unique ==
    Header("M", "1") \o LegLHR \o "2B" \o ">7" \o "25" \o UniqueBody
        \o Tag("001") \o Tag("002") \o "00" \o "^1" \o "04" \o "ABCD" \o "ZZ"
\* two legs that both offer a unique section, the second with Section B
TwoUnique ==
    Header("M", "2") \o LegLHR \o "11" \o ">6" \o "0B" \o UniqueBody \o "00"
        \o LegDXB \o "32" \o ">7" \o "00" \o "2C" \o LegBody \o "XY"

\* two legs that both offer a unique section, both of declared size 0
TwoEmptyUnique ==
    Header("M", "2") \o LegLHR \o "04" \o ">6" \o "00"
        \o LegDXB \o "06" \o ">7" \o "00" \o "00"

Fixed ==
    {Single, Multi, Unique, TwoUnique, TwoEmptyUnique,
     Header("M", "1") \o LegOdd \o "00",
     Header("M", "2") \o LegLHR \o "00" \o LegOdd \o "00",
     Header("S", "1") \o LegLHR \o "00",
     Single \o "^1" \o "ZZ",
     Single \o "^1" \o "0A" \o "AB",
     Single \o "^1" \o "04" \o "ABCD" \o "ZZ",
     Header("M", "2") \o LegLHR \o "05" \o ">601P" \o LegDXB \o "00",
     Single \o "XX^100",
     Multi \o "^100"}

\* every leg count character, a digit or not
LegCounts ==
    {Header("M", n) \o LegLHR \o "00" \o LegDXB \o "00" : n \in {"0", "3", "X", " "}}

CondSizes == {Hex(n) : n \in 0..MaxCondSize} \cup {"2B", "10", "ZZ", " 5"}
SectionSizes == {Hex(n) : n \in 0..MaxSectionSize} \cup {"25", "0B"}

\* a unique section under every declared pair of sizes
UniqueSizes ==
    {Header("M", "1") \o LegLHR \o c \o ">6" \o a \o UniqueBody
         \o Tag("001") \o Tag("010") \o "00" \o "^100" :
     c \in CondSizes, a \in SectionSizes}

\* every version character and baggage tag counter
UniqueTags ==
    {Header("M", "1") \o LegLHR \o "2B" \o ">" \o v \o "25" \o UniqueBody
         \o Tag(counter) \o Tag("010") \o "00" :
     v \in {"6", "7", "8", "A", " "}, counter \in {"000", "001", "002", "A01"}}

\* Section B alone under every declared pair of sizes
LegSizes ==
    {Header("M", "1") \o LegDXB \o c \o b \o LegBody \o "XY" :
     c \in {Hex(n) : n \in 0..MaxCondSize} \cup {"2E", "ZZ"},
     b \in {Hex(n) : n \in 0..MaxSectionSize} \cup {"2A", "2C"}}

\* the inputs that are also cut short
Cut ==
    {Single, Multi, Unique, TwoUnique,
     Header("M", "3") \o LegLHR \o "00" \o LegDXB \o "00",
     Header("M", "2") \o LegLHR \o "00" \o LegOdd \o "00",
     Header("M", "1") \o LegDXB \o "2E" \o "2C" \o LegBody \o "XY"}

Prefixes(t) ==
    {SubSeq(t, 1, Len(t) - k) : k \in 0..(IF MaxCut < Len(t) THEN MaxCut ELSE Len(t))}

\* every kind of date of flight: a day of the year, no day of any year,
\* digits followed by a letter, digits after a blank, and no digits
FlightDates ==
    {Header("M", "1") \o LegOn(d) \o "00" :
     d \in {"001", "366", "000", "367", "999", "12A", " 59", "ABC"}}

Inputs ==
    Fixed \cup LegCounts \cup UniqueSizes \cup UniqueTags \cup LegSizes
        \cup FlightDates
        \cup UNION {Prefixes(t) : t \in Cut}

(***************************************************************************)
(* The specifications.                                                     *)
(***************************************************************************)
\* the years in which a call is made: two of one decade, one of them a leap
\* year, and the first of the next decade
ClockYears == {2027, 2028, 2030}

\* parseBCBP(raw) is called: new SegmentExtractor(raw), result = { legs: [] }
InitOf(im) ==
    /\ impl = im
    /\ raw \in Inputs
    /\ cursor = 0
    /\ segments = <<>>
    /\ pc = "start"
    /\ idx = 1
    /\ result = EmptyResult
    /\ leg = EmptyLeg
    /\ i = 0
    /\ uniqueDataParsed = FALSE
    /\ startOfConditional = 0
    /\ endOfConditional = 0
    /\ endOfSectionA = 0
    /\ endOfSectionB = 0
    /\ bags = <<>>
    /\ secSize = 0
    /\ out = NotReturned
    /\ clock = 2027
    /\ dateOfIssueYear = NoNum
    /\ calls = 0
    /\ earlier = NotReturned
    /\ Unmounted

Init == \E im \in {"p0", "ts"} : InitOf(im)
InitP0 == InitOf("p0")
InitTs == InitOf("ts")

Next ==
    \/ Start
    \/ ReadFormatCode
    \/ ReadNumberOfLegs
    \/ ReadPassengerName
    \/ ReadElectronicTicket
    \/ LegLoop
    \/ ReadLegMandatory
    \/ ReadConditionalSize
    \/ PeekSectionA
    \/ ReadVersionIndicator
    \/ ReadVersionNumber
    \/ ReadSectionASize
    \/ ReadUniqueField
    \/ ReadBaggageTag
    \/ ReadReservedA
    \/ ReadSectionBSize
    \/ ReadLegConditional
    \/ ReadReservedB
    \/ ReadReservedConditional
    \/ PushLeg
    \/ PeekSecurity
    \/ ReadSecurityIndicator
    \/ ReadSecurityType
    \/ ReadSecuritySize
    \/ ReadSecurityData
    \/ Finalize

\* both revisions
Spec == Init /\ [][Next]_vars
\* parseBCBP of src/unnamed/part_000
SpecP0 == InitP0 /\ [][Next]_vars
\* parseBCBP of src/src/lib/bcbp.ts
SpecTs == InitTs /\ [][Next]_vars

(***************************************************************************)
(* The field validation of parseBcbp, the decoder that gates acceptance    *)
(* on the first leg (src/unnamed/part_000, lines 70-88).                   *)
(***************************************************************************)
UpperCase == {CharAt("ABCDEFGHIJKLMNOPQRSTUVWXYZ", k) : k \in 1..26}
Decimal == {CharAt(Digits, k) : k \in 1..10}
AllIn(s, chars) == \A k \in 1..Len(s) : CharAt(s, k) \in chars

\* /^[A-Z]{3}$/
airportCodeRegex(s) == Len(s) = 3 /\ AllIn(s, UpperCase)
\* /^[A-Z0-9]{2,3}$/
carrierRegex(s) == Len(s) \in 2..3 /\ AllIn(s, UpperCase \cup Decimal)
\* /^\d{1,5}$/
flightNumberRegex(s) == Len(s) \in 1..5 /\ AllIn(s, Decimal)

\* the four tests on the leg block that starts at offset `at` of the input
\* (parseBcbp applies them at offset 23, the first leg)
LegFieldsValid(s, at) ==
    /\ airportCodeRegex(trim(substring(s, at + 7, at + 10)))
    /\ airportCodeRegex(trim(substring(s, at + 10, at + 13)))
    /\ carrierRegex(trim(substring(s, at + 13, at + 16)))
    /\ flightNumberRegex(trim(substring(s, at + 16, at + 21)))

(***************************************************************************)
(* parseBcbp of src/src/lib/bcbp.ts: the revision of lines 362-560 ("b2")  *)
(* and the revision of lines 734-856 ("b3").  Both walk BCBP_SCHEMA over   *)
(* the 58 mandatory characters and then read one conditional block.  A     *)
(* segment is kept as its id, rawValue, startIndex and endIndex; label and *)
(* description are fixed texts per id.                                     *)
(***************************************************************************)
\* what parseBcbp neither reads nor writes
Extractor == <<leg, i, uniqueDataParsed, startOfConditional, endOfSectionA,
               endOfSectionB, bags, secSize, Page, Viewer>>

\* /^[A-Z]{3}\s*$/, /^[A-Z0-9]{2,3}\s*$/ and /^\d{1,5}\s*$/ on the raw field
NoValidate(v) == TRUE
IsFormatM(v) == v = "M"
IsAirport(v) == airportCodeRegex(TrimRight(v))
IsCarrier(v) == carrierRegex(TrimRight(v))
IsFlight(v) == flightNumberRegex(TrimRight(v))

SchemaField(id, len, validate) == [id |-> id, len |-> len, validate |-> validate]

BCBP_SCHEMA == <<
    SchemaField("formatCode", 1, "M"),
    SchemaField("legs", 1, "none"),
    SchemaField("passengerName", 20, "none"),
    SchemaField("eticket", 1, "none"),
    SchemaField("pnr", 7, "none"),
    SchemaField("fromCity", 3, "airport"),
    SchemaField("toCity", 3, "airport"),
    SchemaField("carrier", 3, "carrier"),
    SchemaField("flightNumber", 5, "flight"),
    SchemaField("julianDate", 3, "none"),
    SchemaField("compartment", 1, "none"),
    SchemaField("seat", 4, "none"),
    SchemaField("checkInSeq", 5, "none"),
    SchemaField("passengerStatus", 1, "none") >>

\* field.validate && !field.validate(value)
Validates(field, v) ==
    CASE field.validate = "M" -> IsFormatM(v)
      [] field.validate = "airport" -> IsAirport(v)
      [] field.validate = "carrier" -> IsCarrier(v)
      [] field.validate = "flight" -> IsFlight(v)
      [] OTHER -> NoValidate(v)

\* const data = { passengerName: '', ... }; dateOfIssue is not set yet
DataKeys ==
    {"passengerName", "pnr", "fromCity", "toCity", "carrier", "flightNumber",
     "julianDate", "compartment", "seat", "checkInSeq", "passengerStatus"}

EmptyData == [k \in DataKeys \cup {"dateOfIssue"} |->
                  IF k = "dateOfIssue" THEN UNDEF ELSE ""]

BcbpSegment(id, rawValue, startIndex, endIndex) ==
    [id |-> id, rawValue |-> rawValue, startIndex |-> startIndex,
     endIndex |-> endIndex]

\* the calendar of Date: new Date(year, 0) and date.setDate(dayOfYear)
IsLeap(y) == y % 4 = 0 /\ (y % 100 # 0 \/ y % 400 = 0)
YearLength(y) == IF IsLeap(y) THEN 366 ELSE 365
MonthLengths(y) ==
    <<31, IF IsLeap(y) THEN 29 ELSE 28, 31, 30, 31, 30, 31, 31, 30, 31, 30, 31>>

RECURSIVE InMonth(_, _, _)
InMonth(y, m, d) ==
    IF d <= MonthLengths(y)[m] THEN <<m, d>>
    ELSE InMonth(y, m + 1, d - MonthLengths(y)[m])

\* the month and the day of 1 January of year y plus (d - 1) days
RECURSIVE setDate(_, _)
setDate(y, d) ==
    IF d < 1 THEN setDate(y - 1, d + YearLength(y - 1))
    ELSE IF d > YearLength(y) THEN setDate(y + 1, d - YearLength(y))
    ELSE InMonth(y, 1, d)

MonthNames ==
    <<"Jan", "Feb", "Mar", "Apr", "May", "Jun", "Jul", "Aug", "Sep", "Oct",
      "Nov", "Dec">>

\* date.toLocaleDateString('en-US', { month: 'short', day: 'numeric' })
toLocaleDateString(md) ==
    LET d == md[2]
        day == IF d < 10 THEN CharAt(Digits, d + 1)
               ELSE CharAt(Digits, (d \div 10) + 1) \o CharAt(Digits, (d % 10) + 1)
    IN  MonthNames[md[1]] \o " " \o day

\* formatJulianDate(julian, year): the year is `year || new Date().getFullYear()`
formatJulianDate(julian, year, now) ==
    LET dayOfYear == parseInt(julian, 10)
        targetYear == NumOrElse(year, now)
    IN  IF IsNaN(dayOfYear) THEN julian
        ELSE toLocaleDateString(setDate(targetYear, dayOfYear))

\* formatSeat and formatFlight
formatSeat(seat) == StripLeadingZeros(seat)
formatFlight(carrier, number) ==
    trim(carrier) \o " " \o StripLeadingZeros(trim(number))

\* Math.floor(currentYear / 10) * 10 + yDigit
IssueYear(now, yDigit) == Plus((now \div 10) * 10, yDigit)

\* remaining.match(/(\d{4})/): the first four digits in a row, or undefined
FirstFourDigits(s) ==
    LET at == {k \in 1..(Len(s) - 3) : AllIn(SubSeq(s, k, k + 3), Decimal)}
    IN  IF at = {} THEN UNDEF
        ELSE LET k == CHOOSE a \in at : \A b \in at : a <= b
             IN  SubSeq(s, k, k + 3)

\* a day test that leaves out the last day of a leap year
IsDayBefore366(d) ==
    LET day == parseIntAuto(substring(d, 0, 3))
    IN  Gt(day, 0) /\ Lt(day, 366)

\* const day = parseInt(d.substring(0, 3)); if (day > 0 && day <= 366)
IsDayOfYear(d) ==
    LET day == parseIntAuto(substring(d, 0, 3))
    IN  Gt(day, 0) /\ Le(day, 366)

\* return null
ReturnNull ==
    [returned |-> TRUE, isNull |-> TRUE, segments |-> <<>>, data |-> <<>>,
     formatted |-> <<>>]

\* return { raw, segments, data, formatted }
ReturnParsed(segs, data, formatted) ==
    [returned |-> TRUE, isNull |-> FALSE, segments |-> segs, data |-> data,
     formatted |-> formatted]

\* if (!raw || raw.length < MANDATORY_FIELDS_LENGTH) return null;
\* const segments = []; const data = {...}; let cursor = 0
BcbpEnter ==
    /\ pc = "bcbp"
    /\ IF raw = "" \/ Len(raw) < 60
       THEN /\ pc' = "done" /\ out' = ReturnNull
            /\ UNCHANGED <<cursor, segments, result, idx, dateOfIssueYear>>
       ELSE /\ pc' = "mandatory" /\ out' = out
            /\ cursor' = 0 /\ segments' = <<>> /\ result' = EmptyData
            /\ idx' = 1 /\ dateOfIssueYear' = NoNum
    /\ UNCHANGED <<impl, raw, endOfConditional, clock, calls, earlier, Extractor>>

\* one iteration of `for (const field of BCBP_SCHEMA)`
BcbpMandatory ==
    /\ pc = "mandatory"
    /\ LET field == BCBP_SCHEMA[idx]
           value == substring(raw, cursor, cursor + field.len)
       IN  IF cursor + field.len > Len(raw) \/ ~Validates(field, value)
           THEN /\ pc' = "done" /\ out' = ReturnNull
                /\ UNCHANGED <<cursor, segments, result, idx>>
           ELSE /\ segments' = Append(segments,
                        BcbpSegment(field.id, value, cursor, cursor + field.len))
                /\ result' = IF field.id \in DataKeys
                             THEN [result EXCEPT ![field.id] = trim(value)]
                             ELSE result
                /\ cursor' = cursor + field.len
                /\ out' = out
                /\ IF idx < Len(BCBP_SCHEMA)
                   THEN pc' = pc /\ idx' = idx + 1
                   ELSE pc' = "varSize" /\ idx' = idx
    /\ UNCHANGED <<impl, raw, endOfConditional, clock, dateOfIssueYear, calls,
                   earlier, Extractor>>

\* if (cursor + 2 <= raw.length) { varSize segment; cursor += 2;
\*   if (!isNaN(varSize) && varSize > 0 && cursor + varSize <= raw.length) ... }
BcbpVarSize ==
    /\ pc = "varSize"
    /\ IF cursor + 2 <= Len(raw)
       THEN LET varSizeHex == substring(raw, cursor, cursor + 2)
                varSize == parseInt(varSizeHex, 16)
                fits == ~IsNaN(varSize) /\ varSize > 0
                            /\ cursor + 2 + varSize <= Len(raw)
            IN  /\ segments' = Append(segments,
                        BcbpSegment("varSize", varSizeHex, cursor, cursor + 2))
                /\ cursor' = cursor + 2
                /\ endOfConditional' = IF fits THEN cursor + 2 + varSize
                                       ELSE endOfConditional
                /\ pc' = IF ~fits THEN "remainder"
                         ELSE IF impl = "b2" /\ CharAt(raw, cursor + 3) = ">"
                         THEN "startConditional" ELSE "rawBlock"
       ELSE /\ pc' = "remainder"
            /\ UNCHANGED <<segments, cursor, endOfConditional>>
    /\ UNCHANGED <<impl, raw, idx, result, out, clock, dateOfIssueYear, calls,
                   earlier, Extractor>>

\* if (raw[cursor] === '>') { startConditional segment; cursor++
BcbpStartConditional ==
    /\ pc = "startConditional"
    /\ segments' = Append(segments,
           BcbpSegment("startConditional", ">", cursor, cursor + 1))
    /\ cursor' = cursor + 1
    /\ pc' = "version"
    /\ UNCHANGED <<impl, raw, idx, result, out, endOfConditional, clock,
                   dateOfIssueYear, calls, earlier, Extractor>>

\* a version read that records its segment and leaves the cursor on it
BcbpVersionKept ==
    /\ pc = "version"
    /\ IF cursor < endOfConditional
       THEN segments' = Append(segments,
                BcbpSegment("version", CharAt(raw, cursor + 1), cursor, cursor + 1))
       ELSE UNCHANGED segments
    /\ pc' = "content"
    /\ UNCHANGED <<impl, raw, cursor, idx, result, out, endOfConditional, clock,
                   dateOfIssueYear, calls, earlier, Extractor>>

\* if (cursor < condDataEnd) { version segment; cursor++ }
BcbpVersion ==
    /\ pc = "version"
    /\ IF cursor < endOfConditional
       THEN /\ segments' = Append(segments,
                   BcbpSegment("version", CharAt(raw, cursor + 1), cursor, cursor + 1))
            /\ cursor' = cursor + 1
       ELSE UNCHANGED <<segments, cursor>>
    /\ pc' = "content"
    /\ UNCHANGED <<impl, raw, idx, result, out, endOfConditional, clock,
                   dateOfIssueYear, calls, earlier, Extractor>>

\* if (cursor < condDataEnd) { the first four digits in a row are taken as
\* the date of issue when their day is in 1..366; conditionalContent segment }
BcbpContent ==
    /\ pc = "content"
    /\ IF cursor < endOfConditional
       THEN LET remaining == substring(raw, cursor, endOfConditional)
                possibleDate == FirstFourDigits(remaining)
                dated == possibleDate # UNDEF /\ IsDayOfYear(possibleDate)
            IN  /\ result' = IF dated
                             THEN [result EXCEPT !.dateOfIssue = possibleDate]
                             ELSE result
                /\ dateOfIssueYear' =
                       IF dated
                       THEN IssueYear(clock, parseInt(CharAt(possibleDate, 4), 10))
                       ELSE dateOfIssueYear
                /\ segments' = Append(segments,
                       BcbpSegment("conditionalContent", remaining, cursor,
                                   endOfConditional))
                /\ cursor' = endOfConditional
       ELSE UNCHANGED <<result, dateOfIssueYear, segments, cursor>>
    /\ pc' = "remainder"
    /\ UNCHANGED <<impl, raw, idx, out, endOfConditional, clock, calls, earlier,
                   Extractor>>

\* the block that does not start with '>' (the only branch of b3): four
\* digits at offsets 4..7 are the date of issue, in b2 only when their day
\* is in 1..366; conditionalData segment
BcbpRawBlock ==
    /\ pc = "rawBlock"
    /\ LET rawVal == substring(raw, cursor, endOfConditional)
           dateIssueVal == substring(rawVal, 4, 8)
           dated == /\ Len(rawVal) >= 8
                    /\ Len(dateIssueVal) = 4 /\ AllIn(dateIssueVal, Decimal)
                    /\ impl = "b2" => IsDayOfYear(dateIssueVal)
       IN  /\ result' = IF dated
                        THEN [result EXCEPT !.dateOfIssue = dateIssueVal]
                        ELSE result
           /\ dateOfIssueYear' =
                  IF dated
                  THEN IssueYear(clock, parseInt(CharAt(dateIssueVal, 4), 10))
                  ELSE dateOfIssueYear
           /\ segments' = Append(segments,
                  BcbpSegment("conditionalData", rawVal, cursor, endOfConditional))
           /\ cursor' = endOfConditional
    /\ pc' = "remainder"
    /\ UNCHANGED <<impl, raw, idx, out, endOfConditional, clock, calls, earlier,
                   Extractor>>

\* a return that leaves what follows the conditional block out
BcbpRemainderLeft ==
    /\ pc = "remainder"
    /\ pc' = "formatted"
    /\ UNCHANGED <<impl, raw, cursor, segments, idx, result, out,
                   endOfConditional, clock, dateOfIssueYear, calls, earlier,
                   Extractor>>

\* if (cursor < raw.length) { securityData segment: the rest of the input }
BcbpRemainder ==
    /\ pc = "remainder"
    /\ segments' = IF cursor < Len(raw)
                   THEN Append(segments,
                            BcbpSegment("securityData", substring(raw, cursor, Len(raw)),
                                        cursor, Len(raw)))
                   ELSE segments
    /\ pc' = "formatted"
    /\ UNCHANGED <<impl, raw, cursor, idx, result, out, endOfConditional, clock,
                   dateOfIssueYear, calls, earlier, Extractor>>

\* const formatted = {...}; return { raw, segments, data, formatted }.  The
\* other entries of formatted are lookups of data in fixed tables.
BcbpReturn ==
    /\ pc = "formatted"
    /\ out' = ReturnParsed(segments, result,
                  [flight |-> formatFlight(result.carrier, result.flightNumber),
                   seat |-> formatSeat(result.seat),
                   date |-> formatJulianDate(result.julianDate, dateOfIssueYear, clock)])
    /\ pc' = "done"
    /\ UNCHANGED <<impl, raw, cursor, segments, idx, result, endOfConditional,
                   clock, dateOfIssueYear, calls, earlier, Extractor>>

\* the caller decodes the same input once more, then or in a later year
BcbpCallAgain ==
    /\ pc = "done"
    /\ calls = 0
    /\ calls' = 1
    /\ earlier' = out
    /\ out' = NotReturned
    /\ clock' \in {y \in ClockYears : y >= clock}
    /\ pc' = "bcbp"
    /\ UNCHANGED <<impl, raw, cursor, segments, idx, result, endOfConditional,
                   dateOfIssueYear, Extractor>>

\* the inputs of parseBcbp: the 58 mandatory characters, then a block
Mandatory == Header("M", "1") \o LegLHR
LegFlight(flight) == "1234567LHRJFKBA " \o flight \o "107Y012A000011"

Blocks ==
    {"00", "0A1111100511", "0A11113671AB", "0A11110009AB", "08ABCD0608",
     "07ABCD060", "0811113665", "0AABCD06X8ZZ", "05>2ABC", "0A>6AB1005CD", "0C>6AB9991005X",
     "01>", "02>6", "03>6A", "0AABC", "ZZABCD", "0A1111100511^SEC", "0", ""}

BcbpInputs ==
    {Mandatory \o b : b \in Blocks}
        \cup {Header("M", "1") \o LegOn(j) \o "00" : j \in {"060", "366", "000", "ABC", " 59"}}
        \cup {Header("M", "1") \o LegFlight(f) \o "00" : f \in {"0123 ", " 0123"}}
        \cup {Header("S", "1") \o LegLHR \o "00",
              Header("M", "1") \o LegOdd \o "00",
              Header("M", "1") \o LegDXB \o "0A11110605AB", "", "SHORT"}

InitBcbp ==
    /\ impl \in {"b2", "b3"}
    /\ raw \in BcbpInputs
    /\ clock \in ClockYears
    /\ pc = "bcbp"
    /\ cursor = 0
    /\ segments = <<>>
    /\ idx = 1
    /\ result = EmptyData
    /\ dateOfIssueYear = NoNum
    /\ calls = 0
    /\ earlier = NotReturned
    /\ out = NotReturned
    /\ leg = EmptyLeg
    /\ i = 0
    /\ uniqueDataParsed = FALSE
    /\ startOfConditional = 0
    /\ endOfConditional = 0
    /\ endOfSectionA = 0
    /\ endOfSectionB = 0
    /\ bags = <<>>
    /\ secSize = 0
    /\ Unmounted

NextBcbp ==
    \/ BcbpEnter
    \/ BcbpMandatory
    \/ BcbpVarSize
    \/ BcbpStartConditional
    \/ BcbpVersion
    \/ BcbpContent
    \/ BcbpRawBlock
    \/ BcbpRemainder
    \/ BcbpReturn
    \/ BcbpCallAgain

\* parseBcbp of src/src/lib/bcbp.ts, called twice
SpecBcbp == InitBcbp /\ [][NextBcbp]_vars

(***************************************************************************)
(* The page /tools/boarding-pass: BoardingPassTool and its Scanner.        *)
(***************************************************************************)

\* the parsers, which the page and the viewer leave alone
Parsers == <<impl, raw, cursor, segments, pc, idx, result, leg, i,
             uniqueDataParsed, startOfConditional, endOfConditional,
             endOfSectionA, endOfSectionB, bags, secSize, out, clock,
             dateOfIssueYear, calls, earlier>>

\* the handled calls of handleScan a run makes
MaxScans == 3

\* const sample = 'M1DOE/JOHN ... 08XXXX1005'
Sample ==
    "M1DOE/JOHN            EABCDEF LHRJFKBA 00123100Y012A00001108XXXX1005"

CouldNotRead ==
    "Could not read the boarding pass barcode. Please ensure the barcode is clearly visible and try scanning again."

\* the texts a barcode decodes to
Texts == {Sample, Mandatory \o "00", Header("S", "1") \o LegLHR \o "00", "SHORT"}

\* for (const field of BCBP_SCHEMA): every field is there and validates
RECURSIVE FieldsValid(_, _, _)
FieldsValid(text, k, at) ==
    IF k > Len(BCBP_SCHEMA) THEN TRUE
    ELSE LET field == BCBP_SCHEMA[k]
         IN  /\ at + field.len <= Len(text)
             /\ Validates(field, substring(text, at, at + field.len))
             /\ FieldsValid(text, k + 1, at + field.len)

\* parseBcbp(decodedText) is not null
BcbpAccepts(text) == text # "" /\ Len(text) >= 60 /\ FieldsValid(text, 1, 0)

\* the three updates one call of handleScan sets; a parsed result is stood
\* for by the text it was parsed from
BatchErrorSet(text) ==
    [rawScan |-> text,
     parsedData |-> IF BcbpAccepts(text) THEN text ELSE NullText,
     error |-> CouldNotRead]

Batch(text) ==
    [rawScan |-> text,
     parsedData |-> IF BcbpAccepts(text) THEN text ELSE NullText,
     error |-> IF BcbpAccepts(text) THEN NullText ELSE CouldNotRead]

\* new Html5QrcodeScanner(...); scanner.render((decodedText) => onScan(decodedText), ...)
\* onScan is the handleScan of one render: it holds that render's rawScan
Instance(captured) == [onScan |-> captured, state |-> "active"]

\* the cleanup of the effect: scannerRef.current.clear() is started and
\* scannerRef.current = null
Cleanup(insts, ref) ==
    IF ref = 0 THEN insts ELSE [insts EXCEPT ![ref].state = "clearing"]

\* the first render and the effect after it
Mount ==
    /\ ~mounted /\ instances = <<>>
    /\ mounted' = TRUE
    /\ instances' = <<Instance(rawScan)>>
    /\ scannerRef' = 1
    /\ isScanning' = TRUE
    /\ UNCHANGED <<rawScan, parsedData, error, queue, effectPending, parses,
                   Viewer, Parsers>>

\* an instance that is not cleared yet decodes a barcode and calls the
\* onScan it was rendered with: handleScan(decodedText)
Scan(k, decodedText) ==
    /\ mounted
    /\ instances[k].state # "cleared"
    /\ IF decodedText = instances[k].onScan
       THEN UNCHANGED <<queue, parses>>
       ELSE /\ parses < MaxScans
            /\ queue' = Append(queue, Batch(decodedText))
            /\ parses' = parses + 1
    /\ UNCHANGED <<mounted, rawScan, parsedData, error, scannerRef, instances,
                   effectPending, isScanning, Viewer, Parsers>>

\* React renders with the updates set so far; handleScan is a new function
\* when rawScan changed, and then the effect of Scanner is to run again
Render ==
    /\ mounted /\ ~effectPending /\ queue # <<>>
    /\ LET last == queue[Len(queue)]
       IN  /\ rawScan' = last.rawScan
           /\ parsedData' = last.parsedData
           /\ error' = last.error
           /\ effectPending' = (last.rawScan # rawScan)
    /\ queue' = <<>>
    /\ UNCHANGED <<mounted, scannerRef, instances, isScanning, parses, Viewer,
                   Parsers>>

\* the effect runs again: the cleanup of the last run, then
\* if (scannerRef.current) return; ... a new scanner with the new onScan
Effect ==
    /\ mounted /\ effectPending
    /\ instances' = Append(Cleanup(instances, scannerRef), Instance(rawScan))
    /\ scannerRef' = Len(instances) + 1
    /\ isScanning' = TRUE
    /\ effectPending' = FALSE
    /\ UNCHANGED <<mounted, rawScan, parsedData, error, queue, parses, Viewer,
                   Parsers>>

\* the promise of clear() settles
ClearDone(k) ==
    /\ instances[k].state = "clearing"
    /\ instances' = [instances EXCEPT ![k].state = "cleared"]
    /\ UNCHANGED <<mounted, rawScan, parsedData, error, queue, scannerRef,
                   effectPending, isScanning, parses, Viewer, Parsers>>

\* a click on "Load Sample" on a settled page: handleScan(sample) of the
\* last render, then the render and the effect the click causes
LoadSample ==
    /\ mounted /\ ~effectPending /\ queue = <<>>
    /\ IF Sample = rawScan
       THEN UNCHANGED <<rawScan, parsedData, error, parses, instances,
                        scannerRef>>
       ELSE /\ parses < MaxScans
            /\ rawScan' = Batch(Sample).rawScan
            /\ parsedData' = Batch(Sample).parsedData
            /\ error' = Batch(Sample).error
            /\ parses' = parses + 1
            /\ instances' = Append(Cleanup(instances, scannerRef),
                                   Instance(Sample))
            /\ scannerRef' = Len(instances) + 1
    /\ UNCHANGED <<mounted, queue, effectPending, isScanning, Viewer, Parsers>>

\* the page is left: the cleanup of the last run of the effect
Unmount ==
    /\ mounted
    /\ mounted' = FALSE
    /\ instances' = Cleanup(instances, scannerRef)
    /\ scannerRef' = 0
    /\ queue' = <<>>
    /\ effectPending' = FALSE
    /\ UNCHANGED <<rawScan, parsedData, error, isScanning, parses, Viewer,
                   Parsers>>

\* no parser runs on its own while the page or the viewer is modelled
NoParser ==
    /\ impl = "b2"
    /\ raw = ""
    /\ clock = 2027
    /\ pc = "done"
    /\ cursor = 0
    /\ segments = <<>>
    /\ idx = 1
    /\ result = EmptyData
    /\ dateOfIssueYear = NoNum
    /\ calls = 0
    /\ earlier = NotReturned
    /\ out = NotReturned
    /\ leg = EmptyLeg
    /\ i = 0
    /\ uniqueDataParsed = FALSE
    /\ startOfConditional = 0
    /\ endOfConditional = 0
    /\ endOfSectionA = 0
    /\ endOfSectionB = 0
    /\ bags = <<>>
    /\ secSize = 0

InitPage == NoParser /\ Unmounted

NextPage ==
    \/ Mount
    \/ \E k \in DOMAIN instances, decodedText \in Texts : Scan(k, decodedText)
    \/ Render
    \/ Effect
    \/ \E k \in DOMAIN instances : ClearDone(k)
    \/ LoadSample
    \/ Unmount

\* BoardingPassTool with its Scanner, from mount to unmount
SpecPage == InitPage /\ [][NextPage]_vars

(***************************************************************************)
(* BcbpViewer: the prop `parsed` and the states activeLegIndex, activeTab. *)
(***************************************************************************)

\* the leg count is one decimal character
MaxLegs == 9

\* the results the viewer is given, by their leg counts: parseBCBP returns
\* as many legs as numberOfLegs says, and no leg when it is not a number
Results ==
    {[legs |-> n, numberOfLegs |-> n] : n \in 0..MaxLegs}
        \cup {[legs |-> 0, numberOfLegs |-> NaN]}

\* const leg = parsed.legs[activeLegIndex]; if (!leg) return <div>No flight
\* leg data found.</div>
HasLeg == activeLegIndex < parsed.legs
NoLegMessage == ~HasLeg

\* onClick={() => setActiveTab(tab)}: the tabs are rendered with a leg
ClickTab(tab) ==
    /\ HasLeg
    /\ activeTab' = tab
    /\ UNCHANGED <<parsed, activeLegIndex, Page, Parsers>>

\* onClick={() => setActiveLegIndex(idx)}: one button for each leg, on the
\* tab 'parsed' of a result with parsed.numberOfLegs > 1
ClickLeg(k) ==
    /\ HasLeg
    /\ activeTab = "parsed"
    /\ Gt(parsed.numberOfLegs, 1)
    /\ k < parsed.legs
    /\ activeLegIndex' = k
    /\ UNCHANGED <<parsed, activeTab, Page, Parsers>>

\* the parent renders <BcbpViewer parsed={parsedData} /> with another
\* result: the component and its states stay
ReplaceParsed(p) ==
    /\ p # parsed
    /\ parsed' = p
    /\ UNCHANGED <<activeLegIndex, activeTab, Page, Parsers>>

\* useState(0), useState('parsed'), with the first result given
InitViewer ==
    /\ NoParser
    /\ NoPage
    /\ parsed \in Results
    /\ activeLegIndex = 0
    /\ activeTab = "parsed"

NextViewer ==
    \/ \E tab \in {"parsed", "raw"} : ClickTab(tab)
    \/ \E k \in 0..(MaxLegs - 1) : ClickLeg(k)
    \/ \E p \in Results : ReplaceParsed(p)

\* BcbpViewer from its first render on
SpecViewer == InitViewer /\ [][NextViewer]_vars

(***************************************************************************)
(* The claims.                                                             *)
(***************************************************************************)
Done == pc = "done"
Decoded == pc = "done" /\ out.success
FirstChar == substring(raw, 0, 1)
LegCountChar == substring(raw, 1, 2)

\* ===, which is false when either side is NaN
StrictEq(a, b) == ~IsNaN(a) /\ ~IsNaN(b) /\ a = b

\* C1: every input shorter than 60 characters, and every input whose first
\* character is not "M", is answered with a failure: success = false, an
\* error reason, no data and no segments.  (part_000 refuses only inputs
\* shorter than 30 characters and never tests the format code.)
C1_ShortOrNotMRejected ==
    (Done /\ (Len(raw) < 60 \/ FirstChar # "M"))
        => /\ ~out.success
           /\ out.error # UNDEF
           /\ ~out.hasData
           /\ ~out.hasSegments

\* C2: the segments of every successful decode tile the consumed range: the
\* first starts at 0 and each ends where the next one starts.  (In bcbp.ts
\* the read of "Baggage Tag 2" has the length undefined: its segment ends
\* at NaN and every later segment starts at NaN.)
Tiles(segs) ==
    /\ Len(segs) > 0 => StrictEq(segs[1].start, 0)
    /\ \A k \in 1..(Len(segs) - 1) : StrictEq(segs[k].end, segs[k + 1].start)

C2_SegmentsTile == Decoded => Tiles(out.segments)

\* C3: in every successful decode legs.length <= numberOfLegs, with
\* equality when the input has at least 23 + numberOfLegs * 37 characters.
\* (bcbp.ts leaves numberOfLegs NaN when the leg count is no digit.)
C3_LegCountBound ==
    Decoded =>
        /\ Le(Len(out.data.legs), out.data.numberOfLegs)
        /\ Ge(Len(raw), Plus(23, Times(out.data.numberOfLegs, 37)))
               => StrictEq(Len(out.data.legs), out.data.numberOfLegs)

\* C4: inside a conditional block of declared size N the cursor never goes
\* beyond the start of the block plus N.  (The reads of Section A and
\* Section B take their fixed lengths whatever N is.)
InConditional ==
    {"sectionA", "versionIndicator", "versionNumber", "sectionASize",
     "uniqueFields", "baggageTag", "reservedA", "sectionB", "legFields",
     "reservedB", "reservedCond"}

C4_ConditionalBlockBounded ==
    pc \in InConditional => Le(cursor, endOfConditional)

\* C5: when the input is too short to hold the declared number of legs, the
\* decode of an input of 60 characters or more that starts with "M" still
\* succeeds, it returns fewer legs than declared, and every leg it returns
\* was read from at least one character of input.  (Both revisions run the
\* loop numberOfLegs times and push a leg each time.)
C5_LegLoopStopsEarly ==
    (Done /\ Len(raw) >= 60 /\ FirstChar = "M")
        => /\ out.success
           /\ \A k \in 1..Len(result.legs) : result.legs[k].pnrCode # UNDEF
           /\ Lt(Len(raw), Plus(23, Times(37, out.data.numberOfLegs)))
                  => Lt(Len(out.data.legs), out.data.numberOfLegs)

\* C6: an input is accepted only if the first leg's airports, carrier and
\* flight number have the required form, and an input of two legs whose
\* first leg has it is accepted whatever the form of the second.
\* (parseBCBP applies none of the tests of parseBcbp.)
C6_FirstLegGatesAcceptance ==
    /\ Decoded => LegFieldsValid(raw, 23)
    /\ (Done /\ Len(raw) >= 97 /\ FirstChar = "M" /\ LegCountChar = "2"
             /\ LegFieldsValid(raw, 23) /\ substring(raw, 58, 60) = "00")
           => out.success

\* C7: when the leg count character is no decimal digit, the decode of an
\* input of 60 characters or more that starts with "M" succeeds with
\* numberOfLegs = 1 and exactly one leg.  (bcbp.ts has no default: its
\* numberOfLegs is NaN and its loop does not run.)
C7_LegCountDefaultsToOne ==
    (Done /\ Len(raw) >= 60 /\ FirstChar = "M" /\ LegCountChar \notin Decimal)
        => /\ out.success
           /\ StrictEq(out.data.numberOfLegs, 1)
           /\ Len(out.data.legs) = 1

\* C8: a compartment or passenger status code never fails the decode, and
\* every leg that carries one carries it with the description of the table,
\* or with "Unknown Class" / "Unknown Status" when the table has no such
\* code; so it is for the legs of an input that was cut short.
Described(table, code, unknown) ==
    Coded(code, IF code \in DOMAIN table THEN table[code] ELSE unknown)

C8_UnknownCodesFailSoft ==
    /\ (Done /\ Len(raw) >= 60 /\ FirstChar = "M") => out.success
    /\ Decoded =>
           \A k \in 1..Len(result.legs) :
               LET rawLeg == result.legs[k]
                   final == out.data.legs[k]
               IN  /\ rawLeg.compartment # UNDEF =>
                          final.compartment
                              = Described(CompartmentTable, rawLeg.compartment,
                                          "Unknown Class")
                   /\ rawLeg.passengerStatus # UNDEF =>
                          final.passengerStatus
                              = Described(PassengerStatusTable, rawLeg.passengerStatus,
                                          "Unknown Status")

\* a cut input whose last leg has a compartment code of no table, and no
\* seat number any more
C8_Witness ==
    /\ Decoded
    /\ \E k \in 1..Len(result.legs) :
           /\ result.legs[k].compartment = "9"
           /\ result.legs[k].seatNumber = UNDEF
           /\ out.data.legs[k].compartment.description = "Unknown Class"
           /\ out.data.legs[1].passengerStatus.description
                  = "Ticketed and not confirmed"

\* C9: flightNumber, seatNumber and sequenceNumber of every leg are the
\* trimmed field without its leading zeros: what is left of the trimmed
\* field after a run of "0", and it does not start with "0" (so a field of
\* zeros alone becomes "").  A field the input did not reach counts as "".
IsZeroStripped(field, normal) ==
    LET t == trim(OrElse(field, ""))
    IN  /\ \E z \in 0..Len(t) :
               /\ normal = SubSeq(t, z + 1, Len(t))
               /\ \A j \in 1..z : CharAt(t, j) = "0"
        /\ normal = "" \/ CharAt(normal, 1) # "0"

C9_LeadingZerosStripped ==
    Decoded =>
        \A k \in 1..Len(result.legs) :
            /\ IsZeroStripped(result.legs[k].flightNumber, out.data.legs[k].flightNumber)
            /\ IsZeroStripped(result.legs[k].seatNumber, out.data.legs[k].seatNumber)
            /\ IsZeroStripped(result.legs[k].sequenceNumber,
                              out.data.legs[k].sequenceNumber)

\* a leg with the fields "00000", "012A"-like and " 0070"
C9_Witness ==
    /\ Decoded
    /\ \E k \in 1..Len(result.legs) :
           /\ result.legs[k].flightNumber = "00000"
           /\ out.data.legs[k].flightNumber = ""
           /\ result.legs[k].seatNumber = "0000"
           /\ out.data.legs[k].seatNumber = ""
           /\ result.legs[k].sequenceNumber = " 0070"
           /\ out.data.legs[k].sequenceNumber = "70"
    /\ result.legs[1].seatNumber = "012A"
    /\ out.data.legs[1].seatNumber = "12A"

\* C10: a baggage tag of 13 characters that ends in three digits of value c
\* counts c bags when the version character is 7 or more, and c + 1 bags
\* when it is less than 7 or no digit.
VersionChar ==
    LET at == {k \in 1..Len(segments) : segments[k].label = "Version Number"}
    IN  IF at = {} THEN UNDEF
        ELSE segments[CHOOSE k \in at : \A j \in at : k <= j].raw

CounterValue(tag) ==
    100 * DigitValue(CharAt(tag, 11), 10) + 10 * DigitValue(CharAt(tag, 12), 10)
        + DigitValue(CharAt(tag, 13), 10)

C10_BagCountByVersion ==
    Decoded =>
        \A k \in 1..Len(result.baggageTags) :
            LET tag == result.baggageTags[k]
            IN  (Len(trim(tag)) = 13 /\ Len(tag) = 13 /\ AllIn(SubSeq(tag, 11, 13), Decimal))
                    => out.data.baggageTags[k].bagCount
                           = IF VersionChar \in {"7", "8", "9"}
                             THEN CounterValue(tag)
                             ELSE CounterValue(tag) + 1

\* "001" at version 7 is one bag
C10_Witness ==
    /\ Decoded
    /\ VersionChar = "7"
    /\ Len(result.baggageTags) = 2
    /\ SubSeq(result.baggageTags[1], 11, 13) = "001"
    /\ out.data.baggageTags[1].bagCount = 1
    /\ out.data.baggageTags[2].bagCount = 10

\* C11: the unique section is parsed at most once in a decode: there is at
\* most one "Version Indicator" segment, it is the segment that follows the
\* size field of the first conditional block that begins with ">", and once
\* the unique section has been parsed no step changes the version or any
\* other unique field.
WithLabel(label) == {k \in 1..Len(segments) : segments[k].label = label}

\* the size fields of the conditional blocks that begin with ">"
UniqueBlocks ==
    {k \in WithLabel("Conditional Data Size") :
        /\ ~IsNaN(segments[k].end)
        /\ Gt(hexToNumber(segments[k].raw), 0)
        /\ substring(raw, segments[k].end, segments[k].end + 1) = ">"}

FirstOf(S) == CHOOSE k \in S : \A j \in S : k <= j

UniqueFieldsOf(res) ==
    <<res.version, res.passengerDescription, res.checkInSource,
      res.boardingPassIssuanceSource, res.issuanceDate, res.documentType,
      res.issuer, res.baggageTags, res.hasBaggageTags>>

UniqueSectionOfFirstBlock ==
    /\ Cardinality(WithLabel("Version Indicator")) <= 1
    /\ \A v \in WithLabel("Version Indicator") :
           UniqueBlocks # {} /\ v = FirstOf(UniqueBlocks) + 1
    /\ (UniqueBlocks # {} /\ Len(segments) > FirstOf(UniqueBlocks))
           => segments[FirstOf(UniqueBlocks) + 1].label = "Version Indicator"

C11_UniqueSectionOnce ==
    /\ []UniqueSectionOfFirstBlock
    /\ [][uniqueDataParsed => UniqueFieldsOf(result)' = UniqueFieldsOf(result)]_vars

\* two legs whose conditional blocks both begin with ">", ">6" and ">7":
\* the version is 6
C11_Witness ==
    /\ Decoded
    /\ Cardinality(UniqueBlocks) = 2
    /\ Cardinality(WithLabel("Version Indicator")) = 1
    /\ out.data.version = 6
    /\ Len(out.data.legs) = 2

\* C12: a unique section of declared size S is decoded from the S
\* characters that follow its size field and from no other: when the
\* decoding of the section ends, the cursor is at payload-start +
\* min(S, remaining), and no segment of the section ends beyond
\* payload-start + S.  (The fixed reads of Section A take their lengths
\* whatever S is.)
AfterUniqueSection ==
    /\ pc = "sectionB"
    /\ Len(segments) > 0
    /\ segments[Len(segments)].section = "conditional_unique"
    /\ WithLabel("Unique Data Size") # {}

C12_UniqueSectionSelfSized ==
    AfterUniqueSection =>
        LET u == FirstOf(WithLabel("Unique Data Size"))
            payloadEnd == Plus(segments[u].end, hexToNumber(segments[u].raw))
        IN  /\ StrictEq(cursor, MathMin(payloadEnd, Len(raw)))
            /\ \A k \in (u + 1)..Len(segments) : Le(segments[k].end, payloadEnd)

\* C13: after the legs a security section is read if and only if the next
\* unread character is "^".  When it is read, securityData is the run of
\* characters after the 4-character security header, as long as the two
\* hexadecimal digits of the header declare or as the input allows (absent
\* when that run is empty); when it is not read the decode succeeds with
\* securityData absent and no segment of section "security".
SecuritySegments == {k \in 1..Len(segments) : segments[k].section = "security"}

\* where the last read before the security section ended (NaN once the
\* cursor is NaN: no character is next then, as for peek)
LegsEnd ==
    LET before == (1..Len(segments)) \ SecuritySegments
    IN  segments[CHOOSE k \in before : \A j \in before : j <= k].end

C13_SecuritySection ==
    Decoded =>
        LET sentinel == substring(raw, LegsEnd, Plus(LegsEnd, 1)) = "^"
            size == hexToNumber(substring(raw, Plus(LegsEnd, 2), Plus(LegsEnd, 4)))
            from == Plus(LegsEnd, 4)
            payload == substring(raw, from, Plus(from, size))
        IN  /\ sentinel <=> SecuritySegments # {}
            /\ sentinel => out.data.securityData
                               = IF Len(raw) >= LegsEnd + 4 /\ payload # ""
                                 THEN payload ELSE UNDEF
            /\ ~sentinel => out.data.securityData = UNDEF

\* a security section of declared size 4 with more input behind it
C13_Witness ==
    /\ Decoded
    /\ out.data.securityData = "ABCD"
    /\ Len(raw) = LegsEnd + 10
    /\ Cardinality(SecuritySegments) = 4

\* C14: parseBCBP never raises: every call returns, once, either success
\* with data and segments and no error, or a failure with an error message
\* and no data.  Every call returns: the function is always at one of its
\* statements (each action has that position as its only guard), and every
\* step advances the position (the iteration of the leg loop, then the
\* statement, then the field of the block), which is bounded.
ReturnShape ==
    \/ /\ out.success /\ out.hasData /\ out.hasSegments /\ out.error = UNDEF
    \/ /\ ~out.success /\ ~out.hasData /\ ~out.hasSegments
       /\ out.error # UNDEF /\ out.error # ""

Statements ==
    <<"start", "formatCode", "numberOfLegs", "passengerName",
      "electronicTicket", "legLoop", "legMandatory", "conditionalSize",
      "sectionA", "versionIndicator", "versionNumber", "sectionASize",
      "uniqueFields", "baggageTag", "reservedA", "sectionB", "legFields",
      "reservedB", "reservedCond", "pushLeg", "security",
      "securityIndicator", "securityType", "securitySize", "securityData",
      "final", "done">>

Position ==
    LET at == CHOOSE k \in 1..Len(Statements) : Statements[k] = pc
        field == IF pc \in {"legMandatory", "uniqueFields", "baggageTag", "legFields"}
                 THEN idx ELSE 0
    IN  1000 * i + 20 * at + field

C15_SameInputSameResult ==
    (Done /\ calls = 1) => out = earlier

\* the mandatory fields of the first leg as the fixed offsets give them
FirstLegAt(s) ==
    [pnrCode |-> trim(substring(s, 23, 30)),
     departureAirport |-> trim(substring(s, 30, 33)),
     arrivalAirport |-> trim(substring(s, 33, 36)),
     operatingCarrier |-> trim(substring(s, 36, 39)),
     flightNumber |-> Normalized(substring(s, 39, 44))]

\* C16: in every accepted input the passenger name is the trimmed
\* characters 2..21, and the PNR, the departure and arrival airports and
\* the operating carrier of the first leg are the trimmed characters
\* 23..29, 30..32, 33..35 and 36..38; its flight number is characters
\* 39..43, trimmed and without leading zeros.
C16_FixedOffsets ==
    (Done /\ out.success) =>
        /\ out.data.passengerName = trim(substring(raw, 2, 22))
        /\ Len(out.data.legs) >= 1 =>
               \A f \in DOMAIN FirstLegAt(raw) :
                   out.data.legs[1][f] = FirstLegAt(raw)[f]

C16_Witness ==
    /\ Done
    /\ out.success
    /\ raw = Multi
    /\ out.data.passengerName = "DOE/JOHN"
    /\ out.data.legs[1].operatingCarrier = "BA"
    /\ out.data.legs[1].flightNumber = "123"

\* the first segment of every leg, and the size field read before it
LegStarts == WithLabel(LegMandatory[1].label)
SizeBefore(j) ==
    LET sizes == {k \in WithLabel("Conditional Data Size") : k < j}
    IN  IF sizes = {} THEN 0 ELSE CHOOSE k \in sizes : \A m \in sizes : m <= k

\* the declared size of a conditional block (0 when it is no number)
Declared(seg) ==
    LET n == hexToNumber(seg.raw) IN IF IsNaN(n) THEN 0 ELSE n

\* C17: the first leg begins at offset 23 and every later leg begins where
\* the conditional block of the leg before it ends: at the end of its size
\* field plus the size it declares; so with every size 0 leg k begins at
\* 23 + 37 * (k - 1).  (The fixed-length reads of Section A and Section B
\* go beyond a block that declares less, and the next leg begins where they
\* stopped.)
C17_LegsAbut ==
    Decoded =>
        \A j \in LegStarts :
            IF SizeBefore(j) = 0 THEN StrictEq(segments[j].start, 23)
            ELSE LET size == segments[SizeBefore(j)]
                 IN  StrictEq(segments[j].start, Plus(size.end, Declared(size)))

\* a date of flight field that is numeric: digits, padded or not
IsNumeric(field) == field # UNDEF /\ trim(field) # "" /\ AllIn(trim(field), Decimal)

\* C18: the dateOfFlight of every decoded leg is null when its three
\* characters are not numeric, and else the number they spell, which is in
\* 1..366.  (FlexibleDate and JulianDate return whatever parseInt returns:
\* 0 for "000", 999 for "999", 12 for "12A".)
C18_DateOfFlightInRange ==
    Decoded =>
        \A k \in 1..Len(out.data.legs) :
            LET field == result.legs[k].dateOfFlight
                date == out.data.legs[k].dateOfFlight
            IN  IF IsNumeric(field)
                THEN /\ date.kind = "number"
                     /\ date.num = parseInt(trim(field), 10)
                     /\ date.num \in 1..366
                ELSE date.kind = "null"

\* a date of issue as the layout has it: three digits of the day of the
\* year and the last digit of the year
IsDDDY(field) == field # UNDEF /\ Len(field) = 4 /\ AllIn(field, Decimal)

\* C19: when the four characters DDDY at the fixed position of the unique
\* section are decoded, the result holds DDD as the day of the year and the
\* year of issue floor(currentYear / 10) * 10 + Y.  (parseBCBP returns the
\* four digits as one number, 1005 for "1005", and no year; parseBcbp builds
\* the year, but from four digits it looks for, not from the fixed
\* position.)
C19_IssuanceYearRebuilt ==
    (Decoded /\ IsDDDY(result.issuanceDate)) =>
        LET field == result.issuanceDate
        IN  /\ out.data.issuanceDate = DateNumber(parseInt(substring(field, 0, 3), 10))
            /\ "issuanceYear" \in DOMAIN out.data
            /\ out.data.issuanceYear =
                   IssueYear(clock, parseInt(substring(field, 3, 4), 10))

\* the conditional block of parseBcbp as the input declares it
BlockSize == parseInt(substring(raw, 58, 60), 16)
Block == substring(raw, 60, Plus(60, BlockSize))

\* C20: in parseBcbp, when the conditional block fits in the input, does
\* not start with ">", has 8 characters or more and has at its offsets 4..7
\* four digits of which the first three are a day in 1..366, dateOfIssue is
\* those four characters and the block is one segment "conditionalData"
\* whose rawValue is the whole block.
C20_RawBlockDateOfIssue ==
    (Done /\ ~out.isNull) =>
        LET digits == substring(Block, 4, 8)
            blocks == {k \in 1..Len(out.segments) :
                           out.segments[k].id = "conditionalData"}
        IN  (/\ ~IsNaN(BlockSize) /\ BlockSize > 0 /\ 60 + BlockSize <= Len(raw)
             /\ substring(Block, 0, 1) # ">"
             /\ Len(Block) >= 8
             /\ IsDDDY(digits)
             /\ parseInt(substring(digits, 0, 3), 10) \in 1..366)
            => /\ out.data.dateOfIssue = digits
               /\ Cardinality(blocks) = 1
               /\ \A k \in blocks :
                      out.segments[k] = BcbpSegment("conditionalData", Block, 60,
                                                    60 + BlockSize)

C20_Witness ==
    /\ Done
    /\ ~out.isNull
    /\ impl = "b3"
    /\ raw = Mandatory \o "0A1111100511"
    /\ out.data.dateOfIssue = "1005"
    /\ out.segments[Len(out.segments)].rawValue = "1111100511"

\* the conditional block of the input fits and starts with ">"
StartsConditional ==
    /\ ~IsNaN(BlockSize) /\ BlockSize > 0 /\ 60 + BlockSize <= Len(raw)
    /\ substring(Block, 0, 1) = ">"

\* C21: in parseBcbp (the revision with the ">" branch), a conditional
\* block of declared size n >= 3 that fits in the input and starts with ">"
\* gives, right after the size segment and in this order, a segment
\* "startConditional" with rawValue ">", a segment "version" with the next
\* character, and a segment "conditionalContent" with the n - 2 characters
\* that are left of the block.
C21_ConditionalStructure ==
    (Done /\ ~out.isNull /\ impl = "b2" /\ StartsConditional /\ BlockSize >= 3) =>
        LET at == Len(BCBP_SCHEMA) + 1
            segs == out.segments
        IN  /\ Len(segs) >= at + 3
            /\ segs[at].id = "varSize"
            /\ segs[at + 1] = BcbpSegment("startConditional", ">", 60, 61)
            /\ segs[at + 2] = BcbpSegment("version", substring(raw, 61, 62), 61, 62)
            /\ segs[at + 3] = BcbpSegment("conditionalContent",
                                  substring(raw, 62, 60 + BlockSize), 62,
                                  60 + BlockSize)
            /\ Len(segs[at + 3].rawValue) = BlockSize - 2
            /\ \A k \in (at + 4)..Len(segs) : segs[k].id = "securityData"

C21_Witness ==
    /\ Done
    /\ ~out.isNull
    /\ impl = "b2"
    /\ raw = Mandatory \o "05>2ABC"
    /\ Len(out.segments) = 18
    /\ out.segments[17].rawValue = "2"
    /\ out.segments[18].rawValue = "ABC"

\* the lengths a read is called with: the field lengths, a remainder, none
ReadLengths == (1..42) \cup {NoNum, NaN}

\* the cursor is at the end of the input or past it
AtEnd == Ge(cursor, Len(raw))

\* C22: a read when the cursor is at the end of the input or past it
\* returns undefined and leaves the cursor and the segments as they were,
\* whatever length it is asked for; so no step of the decoder taken there
\* changes either.
C22_ReadAtEndIsNoOp ==
    /\ [](AtEnd => \A length \in ReadLengths :
              read(length, "Field", "header")
                  = [ret |-> UNDEF, cursor |-> cursor, segments |-> segments])
    /\ [][AtEnd => cursor' = cursor /\ segments' = segments]_vars

C22_Witness ==
    /\ pc = "legMandatory"
    /\ idx = 2
    /\ cursor = Len(raw)
    /\ leg.pnrCode = UNDEF
    /\ Len(segments) > 0

\* the characters that remain, and the lengths of the fields that are read
\* with a fixed length
Remaining == Minus(Len(raw), cursor)
FixedFields ==
    {LegMandatory[k] : k \in 1..Len(LegMandatory)}
        \cup {SectionAFields[k] : k \in 1..Len(SectionAFields)}
        \cup {SectionBFields[k] : k \in 1..Len(SectionBFields)}
        \cup {Field("formatCode", 1, "Format Code"),
              Field("numberOfLegs", 1, "Number of Legs"),
              Field("passengerName", 20, "Passenger Name"),
              Field("electronicTicket", 1, "E-Ticket Indicator"),
              Field("conditionalSize", 2, "Conditional Data Size"),
              Field("sectionASize", 2, "Unique Data Size"),
              Field("sectionBSize", 2, "Leg Data Size"),
              Field("securitySize", 2, "Security Data Size")}

\* what a read of `length` characters is to give while characters remain
Consumes(length) ==
    LET end == Plus(cursor, MathMin(length, Remaining))
        rawValue == substring(raw, cursor, end)
    IN  [ret |-> rawValue, cursor |-> end,
         segments |-> Append(segments,
             Segment("Field", trim(rawValue), rawValue, cursor, end, "header"))]

\* a step that read: one segment more, from the old cursor to the new one
ReadsWell ==
    LET seg == segments'[Len(segments')]
        taken == Minus(seg.end, seg.start)
    IN  /\ segments' = Append(segments, seg)
        /\ StrictEq(seg.start, cursor)
        /\ StrictEq(seg.end, cursor')
        /\ Gt(taken, 0) /\ Le(taken, Remaining)
        /\ seg.raw = substring(raw, seg.start, seg.end)
        /\ seg.value = trim(seg.raw)
        /\ \A f \in FixedFields :
               f.label = seg.label => StrictEq(taken, MathMin(f.len, Remaining))

\* C23: every read made while r > 0 characters remain takes min(L, r)
\* characters: it appends one segment from the old cursor to the old cursor
\* plus min(L, r), with raw the characters between and value their trim,
\* returns raw and leaves the cursor at the end of the segment.  (bcbp.ts
\* reads "Baggage Tag 2" and "Baggage Tag 3" with lengths that L does not
\* define: the segment ends at NaN and so does the cursor.)
C23_ReadConsumesMin ==
    /\ [](Gt(Remaining, 0) =>
              \A length \in 1..42 : read(length, "Field", "header") = Consumes(length))
    /\ [][(Gt(Remaining, 0) /\ (segments' # segments \/ cursor' # cursor))
              => ReadsWell]_vars

\* the statements that peek: `extractor.peek(1)` before Section A and
\* before the security section
Peeks == {"sectionA", "security"}

\* input[cursor, min(cursor + n, length))
IsAhead(peeked, n) ==
    LET last == IF cursor + n < Len(raw) THEN cursor + n ELSE Len(raw)
    IN  /\ Len(peeked) = last - cursor
        /\ \A k \in 1..(last - cursor) : CharAt(peeked, k) = CharAt(raw, cursor + k)

\* a step that leaves the extractor as it was, and the next read with it
PeekLeaves ==
    /\ cursor' = cursor
    /\ segments' = segments
    /\ \A length \in {1, 2, 7} :
           read(length, "Field", "header")' = read(length, "Field", "header")

\* C24: peek(n) returns the characters from the cursor to the cursor plus
\* n, or to the end of the input when that comes first, and changes
\* neither the cursor nor the segments: the read after a peek returns what
\* it would have returned before it.
C24_PeekIsPure ==
    /\ [](~IsNaN(cursor) =>
              \A n \in 1..4 : IsAhead(peek(n), n))
    /\ [][(pc \in Peeks) => PeekLeaves]_vars

C24_Witness ==
    /\ pc = "versionIndicator"
    /\ peek(1) = ">"
    /\ peek(2) = ">6"
    /\ cursor = 60
    /\ segments[Len(segments)].label = "Conditional Data Size"

\* C25: all through a decode the cursor is a position of the input,
\* 0 <= cursor <= raw.length, and no step moves it back.  (In bcbp.ts the
\* read of "Baggage Tag 2" adds NaN to the cursor.)
C25_CursorInRange ==
    /\ [](Ge(cursor, 0) /\ Le(cursor, Len(raw)))
    /\ [][Ge(cursor', cursor)]_vars

\* the rawValue of the segments, one after the other
RECURSIVE Joined(_)
Joined(segs) ==
    IF segs = <<>> THEN ""
    ELSE Joined(SubSeq(segs, 1, Len(segs) - 1)) \o segs[Len(segs)].rawValue

\* C26: the segments of every input parseBcbp accepts tile the input: the
\* first starts at 0, each starts where the one before it ends, the last
\* ends at raw.length, and their rawValue, one after the other, are the
\* input.
C26_SegmentsTileInput ==
    (Done /\ ~out.isNull) =>
        LET segs == out.segments
        IN  /\ Len(segs) > 0
            /\ segs[1].startIndex = 0
            /\ \A k \in 1..(Len(segs) - 1) : segs[k].endIndex = segs[k + 1].startIndex
            /\ \A k \in 1..Len(segs) :
                   Len(segs[k].rawValue) = segs[k].endIndex - segs[k].startIndex
            /\ segs[Len(segs)].endIndex = Len(raw)
            /\ Joined(segs) = raw

C26_Witness ==
    /\ Done
    /\ ~out.isNull
    /\ impl = "b2"
    /\ raw = Mandatory \o "0A>6AB1005CD"
    /\ Len(out.segments) = 18
    /\ out.segments[18].id = "conditionalContent"
    /\ Joined(out.segments) = raw

\* the text of the last call of handleScan that was handled: the rawScan
\* set last, rendered or not
LastScanned == IF queue = <<>> THEN rawScan ELSE queue[Len(queue)].rawScan

\* a step in which handleScan goes past its first line and calls parseBcbp
Reparses == parses' = parses + 1

\* C27: a call of handleScan with the text that was scanned last changes
\* nothing: every call that sets rawScan, parsedData and error and parses
\* again is a call with another text than the last one scanned.
C27_SameTextScannedOnce ==
    [][Reparses => LastScanned' # LastScanned]_vars

\* C28: parsedData and error are never both set, and on a page that has
\* rendered its last handled scan exactly one of them is set: parsedData
\* when parseBcbp accepts the text scanned last, error when it does not.
C28_ParsedOrError ==
    /\ ~(parsedData # NullText /\ error # NullText)
    /\ (rawScan = NullText) => (parsedData = NullText /\ error = NullText)
    /\ (mounted /\ parses > 0 /\ queue = <<>>) => rawScan # NullText
    /\ (rawScan # NullText) =>
           IF BcbpAccepts(rawScan)
           THEN parsedData = rawScan /\ error = NullText
           ELSE parsedData = NullText /\ error = CouldNotRead

\* the sample is shown after a text that was rejected
C28_Witness ==
    /\ mounted /\ queue = <<>> /\ ~effectPending
    /\ parses = 2
    /\ rawScan = Sample /\ parsedData = Sample /\ error = NullText
    /\ Len(instances) = 3
    /\ instances[2].onScan = "SHORT"

\* the instances in a given state of their life
InState(st) == {k \in DOMAIN instances : instances[k].state = st}

\* C29: a mounted Scanner initializes the scanner at most once: no second
\* instance is created, none while another is not cleared yet, and after
\* the unmount no instance is left active.
C29_ScannerInitializedOnce ==
    /\ Len(instances) <= 1
    /\ Cardinality(InState("active") \cup InState("clearing")) <= 1
    /\ ~mounted => (scannerRef = 0 /\ InState("active") = {})

\* C30: the active leg of BcbpViewer is a leg of the result it shows
\* whenever that result has a leg, so that 'No flight leg data found.' is
\* shown only for a result without legs.
C30_ActiveLegExists ==
    /\ (parsed.legs > 0) => activeLegIndex < parsed.legs
    /\ NoLegMessage => parsed.legs = 0

====
